---- MODULE Spec2Model ----
(***************************************************************************)
(* Model of the transaction core of nockboxmultisig (src/txBuilder/tx-core) *)
(* and of its mock crypto provider.                                        *)
(*                                                                         *)
(* Strings of the program are strings; template concatenation and the      *)
(* canonical JSON text are built with \o as the code builds them.  The      *)
(* comparison of two strings (UTF-16 code unit order) is read off Lex, the  *)
(* ascending list of the strings the model ever compares.                  *)
(***************************************************************************)
EXTENDS Integers, Sequences, FiniteSets, TLC

\* ------------------------------------------------------------------------
\* Bounds of the model
\* ------------------------------------------------------------------------
MaxSigs == 2
MaxPending == 1
MaxNow == 3

\* ------------------------------------------------------------------------
\* Canonical text (canonicalStringify over a deepCanonicalize'd value)
\* ------------------------------------------------------------------------
Dec(n) == ToString(n)

JStr(s) == "\"" \o s \o "\""
JNum(n) == Dec(n)
JBig(n) == JStr("n:" \o Dec(n))
JNull == "null"
JKey(k) == JStr(k) \o ":"

RECURSIVE JoinComma(_)
JoinComma(ss) ==
  IF ss = <<>> THEN ""
  ELSE IF Len(ss) = 1 THEN ss[1]
  ELSE ss[1] \o "," \o JoinComma(Tail(ss))

JArr(items) == "[" \o JoinComma(items) \o "]"
JObj(fields) == "{" \o JoinComma(fields) \o "}"

\* optional values (a key that may be undefined)
None == [has |-> FALSE, v |-> <<>>]
Some(x) == [has |-> TRUE, v |-> x]
JOptStr(o) == IF o.has THEN JStr(o.v) ELSE JNull

Kkind == "kind"
Kthreshold == "threshold"
Kpkhs == "pkhs"
Khash == "hash"
KnotBefore == "notBefore"
Kinner == "inner"
KsigEntries == "sigEntries"
Kpubkey == "pubkey"
Ksignature == "signature"
Kpreimage == "preimage"
Kversion == "version"
Knetwork == "network"
Kfee == "fee"
Kspends == "spends"
Koutputs == "outputs"
KnoteId == "noteId"
Kseeds == "seeds"
Kaddress == "address"
Kamount == "amount"
KassetId == "assetId"

Tpkh == "%pkh"
Thax == "%hax"
Ttim == "%tim"
Tbrn == "%brn"

\* ------------------------------------------------------------------------
\* Mock crypto provider: the digest of a text is modelled as the injective
\* image "#" + text of the 64-bit FNV-1a digest (collisions are left out)
\* ------------------------------------------------------------------------
hash(bytes) == "#" \o bytes
hashPubkey(pubkey) == hash(pubkey)
MockSigPrefix == "mock-sig:"
mockSign(pubkey, message) == MockSigPrefix \o pubkey \o ":" \o hash(message)
verify(pubkey, message, sig) == sig = mockSign(pubkey, message)

\* ------------------------------------------------------------------------
\* String comparison and Array.prototype.sort
\* ------------------------------------------------------------------------
\* the strings the model sorts, in ascending code unit order: pkhs, then
\* note ids ("#{..."), then public keys, then output sort keys ("|...")
Lex ==
  << "#a", "#b", "#c",
     "#{\"hash\":\"x\",\"kind\":\"%hax\"}.5",
     "#{\"inner\":{\"kind\":\"%pkh\",\"pkhs\":[\"#a\",\"#b\",\"#c\"],\"threshold\":2},\"kind\":\"%tim\",\"notBefore\":2}.3",
     "#{\"inner\":{\"kind\":\"%pkh\",\"pkhs\":[\"#a\"],\"threshold\":1},\"kind\":\"%tim\",\"notBefore\":2}.3",
     "#{\"inner\":{\"kind\":\"%pkh\",\"pkhs\":[\"#a\"],\"threshold\":2},\"kind\":\"%tim\",\"notBefore\":1}.8",
     "#{\"kind\":\"%brn\"}.4",
     "#{\"kind\":\"%pkh\",\"pkhs\":[\"#a\",\"#a\"],\"threshold\":1}.6",
     "#{\"kind\":\"%pkh\",\"pkhs\":[\"#a\",\"#b\",\"#c\"],\"threshold\":2}.1",
     "#{\"kind\":\"%pkh\",\"pkhs\":[\"#a\",\"#b\",\"#c\"],\"threshold\":2}.2",
     "#{\"kind\":\"%pkh\",\"pkhs\":[\"#a\"],\"threshold\":0}.7",
     "#{\"kind\":\"%pkh\",\"pkhs\":[\"#a\"],\"threshold\":1}.2",
     "#{\"kind\":\"%pkh\",\"pkhs\":[\"#a\"],\"threshold\":1}.9",
     "#{\"kind\":\"%pkh\",\"pkhs\":[\"#a\"],\"threshold\":2}.8",
     "a", "b", "c", "t|x|y|2", "|w|0", "|w|1",
     "|w|100", "|w|101", "|w|2", "|w|3", "|w|39", "|w|4",
     "|w|40", "|w|41", "|w|47", "|w|48", "|w|5", "|w|50",
     "|w|6", "|w|7", "|w|8", "|w|9", "|w|96", "|w|97",
     "|w|98", "|w|99", "|x|0", "|x|2", "|x|6", "|x|60",
     "|y|1" >>

LexRank(s) == CHOOSE i \in 1..Len(Lex) : Lex[i] = s

\* a < b
StrLt(a, b) == LexRank(a) < LexRank(b)

\* Array.prototype.sort comparing keys[i] for s[i]: a stable insertion sort
RECURSIVE InsertPair(_, _)
InsertPair(p, s) ==
  IF s = <<>> THEN <<p>>
  ELSE IF StrLt(p[1], Head(s)[1]) THEN <<p>> \o s
  ELSE <<Head(s)>> \o InsertPair(p, Tail(s))

RECURSIVE SortPairs(_)
SortPairs(ps) ==
  IF ps = <<>> THEN <<>>
  ELSE InsertPair(ps[Len(ps)], SortPairs(SubSeq(ps, 1, Len(ps) - 1)))

SortByKey(s, keys) ==
  LET sorted == SortPairs([i \in 1..Len(s) |-> <<keys[i], s[i]>>])
  IN [i \in 1..Len(s) |-> sorted[i][2]]

SortStrings(s) == SortByKey(s, s)

Range(s) == { s[i] : i \in 1..Len(s) }
Includes(s, x) == \E i \in 1..Len(s) : s[i] = x

\* ------------------------------------------------------------------------
\* Locks
\* ------------------------------------------------------------------------
PkhLock(m, pkhs) == [kind |-> "%pkh", threshold |-> m, pkhs |-> pkhs]
HaxLock(h) == [kind |-> "%hax", hash |-> h]
TimLock(t, inner) == [kind |-> "%tim", notBefore |-> t, inner |-> inner]
BrnLock == [kind |-> "%brn"]

RECURSIVE EncodeLock(_)
EncodeLock(lock) ==
  CASE lock.kind = "%pkh" ->
         JObj(<< JKey(Kkind) \o JStr(Tpkh),
                 JKey(Kpkhs) \o JArr([i \in 1..Len(lock.pkhs) |->
                                        JStr(SortStrings(lock.pkhs)[i])]),
                 JKey(Kthreshold) \o JNum(lock.threshold) >>)
    [] lock.kind = "%hax" ->
         JObj(<< JKey(Khash) \o JStr(lock.hash), JKey(Kkind) \o JStr(Thax) >>)
    [] lock.kind = "%tim" ->
         JObj(<< JKey(Kinner) \o EncodeLock(lock.inner),
                 JKey(Kkind) \o JStr(Ttim),
                 JKey(KnotBefore) \o JNum(lock.notBefore) >>)
    [] lock.kind = "%brn" ->
         JObj(<< JKey(Kkind) \o JStr(Tbrn) >>)

lockHash(lock) == hash(EncodeLock(lock))

noteIdFromName(name) == name[1] \o "." \o name[2]

\* ------------------------------------------------------------------------
\* Notes, outputs, seeds
\* ------------------------------------------------------------------------
Note(lock, deriv, amount) ==
  [name |-> <<lockHash(lock), deriv>>, amount |-> amount, lock |-> lock,
   assetId |-> None]

Output(address, amount) ==
  [address |-> address, amount |-> amount, assetId |-> None]

EmptyMap == [k \in {} |-> <<>>]

\* mutant: the new entry replaces the map
MapPutAlone(m, k, v) == [x \in {k} |-> v]

\* signatures: { ...m, [k]: v }
MapPut(m, k, v) == [x \in DOMAIN m \cup {k} |-> IF x = k THEN v ELSE m[x]]
\* mutant: on a key of both maps the first map's value is kept
MapSpreadFirstWins(a, b) ==
  [x \in DOMAIN a \cup DOMAIN b |-> IF x \in DOMAIN a THEN a[x] ELSE b[x]]

\* mutant: only the second map's entries are kept
MapSpreadSecondOnly(a, b) == b

\* signatures: { ...a, ...b }
MapSpread(a, b) ==
  [x \in DOMAIN a \cup DOMAIN b |-> IF x \in DOMAIN b THEN b[x] ELSE a[x]]

\* the keys of a signature map in ascending string order
RECURSIVE SortedKeys(_)
SortedKeys(S) ==
  IF S = {} THEN <<>>
  ELSE LET m == CHOOSE x \in S : \A y \in S \ {x} : StrLt(x, y)
       IN <<m>> \o SortedKeys(S \ {m})

RECURSIVE canonicalizeSeeds(_)
canonicalizeSeeds(seeds) ==
  CASE seeds.kind = "%pkh" ->
         LET pkhs == SortStrings(seeds.pkhs)
             keys == SortedKeys(DOMAIN seeds.signatures)
             sigEntries == [i \in 1..Len(keys) |->
                JObj(<< JKey(Kpubkey) \o JStr(keys[i]),
                        JKey(Ksignature) \o JStr(seeds.signatures[keys[i]]) >>)]
         IN JObj(<< JKey(Kkind) \o JStr(Tpkh),
                    JKey(Kpkhs) \o JArr([i \in 1..Len(pkhs) |-> JStr(pkhs[i])]),
                    JKey(KsigEntries) \o JArr(sigEntries),
                    JKey(Kthreshold) \o JNum(seeds.threshold) >>)
    [] seeds.kind = "%hax" ->
         JObj(<< JKey(Kkind) \o JStr(Thax),
                 JKey(Kpreimage) \o JOptStr(seeds.preimage) >>)
    [] seeds.kind = "%tim" ->
         JObj(<< JKey(Kinner) \o canonicalizeSeeds(seeds.inner),
                 JKey(Kkind) \o JStr(Ttim),
                 JKey(KnotBefore) \o JNum(seeds.notBefore) >>)
    [] seeds.kind = "%brn" ->
         JObj(<< JKey(Kkind) \o JStr(Tbrn) >>)

SpendKey(s) == s.noteId
OutputKey(o) ==
  (IF o.assetId.has THEN o.assetId.v ELSE "") \o "|" \o o.address
     \o "|" \o Dec(o.amount)

encodeUnsignedPayload(tx) ==
  LET spends == SortByKey(tx.spends, [i \in 1..Len(tx.spends) |-> SpendKey(tx.spends[i])])
      outputs == SortByKey(tx.outputs,
                           [i \in 1..Len(tx.outputs) |-> OutputKey(tx.outputs[i])])
  IN JObj(<<
       JKey(Kfee) \o JBig(tx.fee),
       JKey(Knetwork) \o JOptStr(tx.network),
       JKey(Koutputs) \o JArr([i \in 1..Len(outputs) |->
          JObj(<< JKey(Kaddress) \o JStr(outputs[i].address),
                  JKey(Kamount) \o JBig(outputs[i].amount),
                  JKey(KassetId) \o JOptStr(outputs[i].assetId) >>)]),
       JKey(Kspends) \o JArr([i \in 1..Len(spends) |->
          JObj(<< JKey(KnoteId) \o JStr(spends[i].noteId),
                  JKey(Kseeds) \o canonicalizeSeeds(spends[i].seeds) >>)]),
       JKey(Kversion) \o JNum(tx.version) >>)

\* ------------------------------------------------------------------------
\* Locks -> seeds, notes -> spends
\* ------------------------------------------------------------------------
Ok(v) == [ok |-> TRUE, val |-> v]
Err(e) == [ok |-> FALSE, err |-> e]

\* mutant: the pkhs are not checked for duplicates
assertValidPkhLockThresholdOnly(lock) ==
  IF lock.threshold <= 0 THEN "Threshold must be > 0"
  ELSE IF lock.threshold > Len(lock.pkhs) THEN "Threshold cannot exceed number of pkhs"
  ELSE ""

\* the error assertValidPkhLock throws, "" when it returns
assertValidPkhLock(lock) ==
  IF Cardinality(Range(lock.pkhs)) # Len(lock.pkhs) THEN "Lock pkhs must be unique"
  ELSE IF lock.threshold <= 0 THEN "Threshold must be > 0"
  ELSE IF lock.threshold > Len(lock.pkhs) THEN "Threshold cannot exceed number of pkhs"
  ELSE ""

RECURSIVE seedsFromLock(_)
seedsFromLock(lock) ==
  CASE lock.kind = "%pkh" ->
         IF assertValidPkhLock(lock) # "" THEN Err(assertValidPkhLock(lock))
         ELSE Ok([kind |-> "%pkh", threshold |-> lock.threshold,
                  pkhs |-> SortStrings(lock.pkhs), signatures |-> EmptyMap])
    [] lock.kind = "%hax" -> Ok([kind |-> "%hax", preimage |-> None])
    [] lock.kind = "%tim" ->
         LET r == seedsFromLock(lock.inner)
         IN IF r.ok
            THEN Ok([kind |-> "%tim", notBefore |-> lock.notBefore, inner |-> r.val])
            ELSE r
    [] lock.kind = "%brn" -> Ok([kind |-> "%brn"])

NoteKey(n) == noteIdFromName(n.name)

buildSpends(notes) ==
  LET sorted == SortByKey(notes, [i \in 1..Len(notes) |-> NoteKey(notes[i])])
      made == [i \in 1..Len(sorted) |-> seedsFromLock(sorted[i].lock)]
  IN IF \E i \in 1..Len(made) : ~made[i].ok
     THEN Err(made[CHOOSE i \in 1..Len(made) :
                     ~made[i].ok /\ \A j \in 1..(i - 1) : made[j].ok].err)
     ELSE Ok([i \in 1..Len(sorted) |->
                [noteId |-> noteIdFromName(sorted[i].name), seeds |-> made[i].val]])

RECURSIVE SumAmounts(_)
SumAmounts(s) == IF s = <<>> THEN 0 ELSE Head(s).amount + SumAmounts(Tail(s))
sumInputs(notes) == SumAmounts(notes)
sumOutputs(outputs) == SumAmounts(outputs)

\* mutant: the note name is not compared with the hash of the lock
validateNotesAmountOnly(notes) ==
  IF \E i \in 1..Len(notes) : notes[i].amount <= 0
  THEN "Note amount must be > 0" ELSE ""

\* the error validateNotes throws, "" when it returns
validateNotes(notes) ==
  IF \E i \in 1..Len(notes) :
        notes[i].name[1] # lockHash(notes[i].lock) \/ notes[i].amount <= 0
  THEN LET i == CHOOSE k \in 1..Len(notes) :
                  /\ notes[k].name[1] # lockHash(notes[k].lock) \/ notes[k].amount <= 0
                  /\ \A j \in 1..(k - 1) :
                        notes[j].name[1] = lockHash(notes[j].lock) /\ notes[j].amount > 0
       IN IF notes[i].name[1] # lockHash(notes[i].lock)
          THEN "Note.name[0] mismatch" ELSE "Note amount must be > 0"
  ELSE ""

fundsShortNoFee(inputTotal, outputTotal, fee) == inputTotal < outputTotal

\* mutant: inputs that cover outputs and fee exactly are refused too
fundsShortOrEqual(inputTotal, outputTotal, fee) == inputTotal <= outputTotal + fee

fundsShort(inputTotal, outputTotal, fee) == inputTotal < outputTotal + fee

\* args: [version (Opt number), network (Opt), notes, outputs, fee, change (Opt)]
buildUnsignedTransaction(args) ==
  LET version == IF args.version.has THEN args.version.v ELSE 1
      outputs == IF args.change.has THEN Append(args.outputs, args.change.v)
                 ELSE args.outputs
      inputTotal == sumInputs(args.notes)
      outputTotal == sumOutputs(outputs)
      spends == buildSpends(args.notes)
      base == [version |-> version, network |-> args.network,
               spends |-> spends.val, outputs |-> outputs, fee |-> args.fee]
  IN IF validateNotes(args.notes) # "" THEN Err(validateNotes(args.notes))
     ELSE IF Len(outputs) = 0 THEN Err("At least one output is required")
     ELSE IF \E i \in 1..Len(outputs) : outputs[i].amount <= 0
       THEN Err("Output amount must be > 0")
     ELSE IF args.fee < 0 THEN Err("Fee cannot be negative")
     ELSE IF fundsShort(inputTotal, outputTotal, args.fee)
       THEN Err("Insufficient funds: inputs=" \o Dec(inputTotal)
                  \o " outputs+fee=" \o Dec(outputTotal + args.fee))
     ELSE IF ~spends.ok THEN spends
     ELSE Ok([version |-> version, network |-> args.network,
              spends |-> spends.val, outputs |-> outputs, fee |-> args.fee,
              unsignedHash |-> hash(encodeUnsignedPayload(base))])

\* mutant: the change amount is not looked at
changeWantedAnyAmount(changeAmount, changeAddress) ==
  changeAddress.has /\ changeAddress.v # ""

\* changeAmount > 0n && changeAddress: an absent or empty address is falsy
changeWanted(changeAmount, changeAddress) ==
  changeAmount > 0 /\ changeAddress.has /\ changeAddress.v # ""

\* params: [inputs, recipients, fee, changeAddress (Opt)]
buildSimpleTransaction(params) ==
  LET totalIn == SumAmounts(params.inputs)
      totalOut == SumAmounts(params.recipients)
      changeAmount == totalIn - totalOut - params.fee
      outputs == [i \in 1..Len(params.recipients) |->
                    Output(params.recipients[i].address, params.recipients[i].amount)]
      change == IF changeWanted(changeAmount, params.changeAddress)
                THEN Some(Output(params.changeAddress.v, changeAmount))
                ELSE None
  IN IF changeAmount < 0
     THEN Err("Insufficient funds: need " \o Dec(totalOut + params.fee)
                \o ", have " \o Dec(totalIn))
     ELSE buildUnsignedTransaction(
            [version |-> None, network |-> None, notes |-> params.inputs,
             outputs |-> outputs, fee |-> params.fee, change |-> change])

\* ------------------------------------------------------------------------
\* %pkh signing / verification / collection
\* ------------------------------------------------------------------------
\* mutant: membership by hash only
pkhIsAllowedHashOnly(pubkey, pkhs) == Includes(pkhs, hashPubkey(pubkey))

pkhIsAllowed(pubkey, pkhs) ==
  Includes(pkhs, hashPubkey(pubkey)) \/ Includes(pkhs, pubkey)

\* the loop adds hashPubkey(pubkey) to seenPkhs for every key that passes the
\* membership test and counts the additions
countCollectedPkh(seeds) ==
  Cardinality({ hashPubkey(pubkey) : pubkey \in
     { k \in DOMAIN seeds.signatures :
         Includes(seeds.pkhs, hashPubkey(k)) \/ Includes(seeds.pkhs, k) } })

\* mutant: strictly more than threshold
isPkhCompleteStrict(seeds) == countCollectedPkh(seeds) > seeds.threshold

isPkhComplete(seeds) == countCollectedPkh(seeds) >= seeds.threshold

\* what the map callback of attachSignatureToSpend throws on a matching spend
attachError(spend, pubkey) ==
  IF spend.seeds.kind # "%pkh" THEN "attachSignatureToSpend: only %pkh supported"
  ELSE IF ~pkhIsAllowed(pubkey, spend.seeds.pkhs) THEN "Signer not allowed"
  ELSE ""

\* mutant: the hash is recomputed over the spends after attaching
attachRehash(tx, noteId, pubkey, signature) ==
  LET hit == { i \in 1..Len(tx.spends) : tx.spends[i].noteId = noteId }
      bad == { i \in hit : attachError(tx.spends[i], pubkey) # "" }
      spends == [i \in 1..Len(tx.spends) |->
                   IF i \in hit
                   THEN [tx.spends[i] EXCEPT !.seeds.signatures =
                           MapPut(tx.spends[i].seeds.signatures, pubkey, signature)]
                   ELSE tx.spends[i]]
  IN IF bad # {}
     THEN Err(attachError(tx.spends[CHOOSE i \in bad : \A j \in bad : i <= j], pubkey))
     ELSE Ok([tx EXCEPT !.spends = spends,
                        !.unsignedHash =
                           hash(encodeUnsignedPayload([tx EXCEPT !.spends = spends]))])

attachSignatureToSpend(tx, noteId, pubkey, signature) ==
  LET hit == { i \in 1..Len(tx.spends) : tx.spends[i].noteId = noteId }
      bad == { i \in hit : attachError(tx.spends[i], pubkey) # "" }
  IN IF bad # {}
     THEN Err(attachError(tx.spends[CHOOSE i \in bad : \A j \in bad : i <= j], pubkey))
     ELSE Ok([tx EXCEPT !.spends =
            [i \in 1..Len(tx.spends) |->
               IF i \in hit
               THEN [tx.spends[i] EXCEPT !.seeds.signatures =
                       MapPut(tx.spends[i].seeds.signatures, pubkey, signature)]
               ELSE tx.spends[i]]])

verifySignatureOnTx(tx, pubkey, signature) ==
  verify(pubkey, encodeUnsignedPayload(tx), signature)

\* signSpend up to the await: the error thrown, "" when signer.sign is called
signSpendChecks(tx, noteId, pubkey) ==
  LET hit == { i \in 1..Len(tx.spends) : tx.spends[i].noteId = noteId }
      target == tx.spends[CHOOSE i \in hit : \A j \in hit : i <= j]
  IN IF hit = {} THEN "Unknown noteId for spend"
     ELSE IF target.seeds.kind # "%pkh" THEN "signSpend: only %pkh supported"
     ELSE IF ~pkhIsAllowed(pubkey, target.seeds.pkhs) THEN "Signer not in lock"
     ELSE ""

\* mutant: the signature is attached as the signer returned it
signSpendResumeUnverified(call, sig) ==
  attachSignatureToSpend(call.tx, call.noteId, call.pubkey, sig)

\* signSpend after the await: sig is what signer.sign(bytes) resolved to
signSpendResume(call, sig) ==
  IF ~verify(call.pubkey, call.bytes, sig)
  THEN Err("Signature verification failed")
  ELSE attachSignatureToSpend(call.tx, call.noteId, call.pubkey, sig)

\* ------------------------------------------------------------------------
\* Seed satisfaction (recursive) + fully signed
\* ------------------------------------------------------------------------
\* mutant: %tim seeds are as satisfied as what they wrap, whatever the time
RECURSIVE isSeedsSatisfiedAnyTime(_, _)
isSeedsSatisfiedAnyTime(seeds, now) ==
  CASE seeds.kind = "%pkh" -> isPkhComplete(seeds)
    [] seeds.kind = "%hax" -> seeds.preimage.has /\ seeds.preimage.v # ""
    [] seeds.kind = "%tim" -> isSeedsSatisfiedAnyTime(seeds.inner, now)
    [] seeds.kind = "%brn" -> FALSE

RECURSIVE isSeedsSatisfied(_, _)
isSeedsSatisfied(seeds, now) ==
  CASE seeds.kind = "%pkh" -> isPkhComplete(seeds)
    [] seeds.kind = "%hax" -> seeds.preimage.has /\ seeds.preimage.v # ""
    [] seeds.kind = "%tim" ->
         IF now < seeds.notBefore THEN FALSE
         ELSE isSeedsSatisfied(seeds.inner, now)
    [] seeds.kind = "%brn" -> FALSE

isTransactionFullySigned(tx, now) ==
  \A i \in 1..Len(tx.spends) : isSeedsSatisfied(tx.spends[i].seeds, now)

\* ------------------------------------------------------------------------
\* Merge partially signed txs
\* ------------------------------------------------------------------------
SamePkhs(A, B) == SortStrings(A.pkhs) = SortStrings(B.pkhs)

RECURSIVE mergeSeeds(_, _)
mergeSeeds(a, b) ==
  IF a.kind # b.kind THEN Err("Cannot merge seeds: kind differs")
  ELSE CASE a.kind = "%pkh" ->
         IF a.threshold # b.threshold THEN Err("Cannot merge pkh seeds: threshold differs")
         ELSE IF ~SamePkhs(a, b) THEN Err("Cannot merge pkh seeds: pkhs differ")
         ELSE Ok([a EXCEPT !.signatures = MapSpread(a.signatures, b.signatures)])
    [] a.kind = "%hax" ->
         Ok([kind |-> "%hax",
             preimage |-> IF a.preimage.has THEN a.preimage ELSE b.preimage])
    [] a.kind = "%tim" ->
         IF a.notBefore # b.notBefore THEN Err("Cannot merge tim seeds: notBefore differs")
         ELSE LET r == mergeSeeds(a.inner, b.inner)
              IN IF r.ok
                 THEN Ok([kind |-> "%tim", notBefore |-> a.notBefore, inner |-> r.val])
                 ELSE r
    [] a.kind = "%brn" -> Ok([kind |-> "%brn"])

\* mutant: the spend of a is returned whatever b holds
mergeSpendKeepsFirst(sa, b) == Ok(sa)

\* one element of the a.spends.map callback of mergePartiallySignedTx
mergeSpend(sa, b) ==
  LET hit == { j \in 1..Len(b.spends) : b.spends[j].noteId = sa.noteId }
      sb == b.spends[CHOOSE j \in hit : \A k \in hit : k <= j]
  IN IF hit = {} THEN Ok(sa)
     ELSE IF sa.seeds.kind # sb.seeds.kind THEN Err("Cannot merge: seeds kind mismatch for " \o sa.noteId)
     ELSE CASE sa.seeds.kind = "%pkh" ->
            IF sa.seeds.threshold # sb.seeds.threshold THEN Err("Cannot merge: threshold differs")
            ELSE IF ~SamePkhs(sa.seeds, sb.seeds) THEN Err("Cannot merge: pkhs differ")
            ELSE Ok([sa EXCEPT !.seeds.signatures =
                       MapSpread(sa.seeds.signatures, sb.seeds.signatures)])
       [] sa.seeds.kind = "%hax" ->
            Ok([sa EXCEPT !.seeds =
                  [kind |-> "%hax",
                   preimage |-> IF sa.seeds.preimage.has THEN sa.seeds.preimage
                                ELSE sb.seeds.preimage]])
       [] sa.seeds.kind = "%tim" ->
            IF sa.seeds.notBefore # sb.seeds.notBefore THEN Err("Cannot merge: timelock notBefore differs")
            ELSE LET r == mergeSeeds(sa.seeds.inner, sb.seeds.inner)
                 IN IF r.ok
                    THEN Ok([sa EXCEPT !.seeds =
                               [kind |-> "%tim", notBefore |-> sa.seeds.notBefore,
                                inner |-> r.val]])
                    ELSE r
       [] sa.seeds.kind = "%brn" -> Ok(sa)

\* mutant: the unsignedHash of the two sides is not compared
mergeAnyHash(a, b) ==
  LET merged == [i \in 1..Len(a.spends) |-> mergeSpend(a.spends[i], b)]
  IN IF \E i \in 1..Len(merged) : ~merged[i].ok
     THEN Err(merged[CHOOSE i \in 1..Len(merged) :
                       ~merged[i].ok /\ \A j \in 1..(i - 1) : merged[j].ok].err)
     ELSE Ok([a EXCEPT !.spends = [i \in 1..Len(merged) |-> merged[i].val]])

\* mutant: the spends that only b has are appended to the result
mergeAppending(a, b) ==
  LET merged == [i \in 1..Len(a.spends) |-> mergeSpend(a.spends[i], b)]
      extra == SelectSeq(b.spends, LAMBDA sb : sb.noteId \notin { a.spends[i].noteId : i \in 1..Len(a.spends) })
  IN IF a.unsignedHash # b.unsignedHash THEN Err("Cannot merge: unsignedHash differs")
     ELSE IF \E i \in 1..Len(merged) : ~merged[i].ok
     THEN Err(merged[CHOOSE i \in 1..Len(merged) :
                       ~merged[i].ok /\ \A j \in 1..(i - 1) : merged[j].ok].err)
     ELSE Ok([a EXCEPT !.spends = [i \in 1..Len(merged) |-> merged[i].val] \o extra])

mergePartiallySignedTx(a, b) ==
  LET merged == [i \in 1..Len(a.spends) |-> mergeSpend(a.spends[i], b)]
  IN IF a.unsignedHash # b.unsignedHash THEN Err("Cannot merge: unsignedHash differs")
     ELSE IF \E i \in 1..Len(merged) : ~merged[i].ok
     THEN Err(merged[CHOOSE i \in 1..Len(merged) :
                       ~merged[i].ok /\ \A j \in 1..(i - 1) : merged[j].ok].err)
     ELSE Ok([a EXCEPT !.spends = [i \in 1..Len(merged) |-> merged[i].val]])

\* ------------------------------------------------------------------------
\* Export / import
\* ------------------------------------------------------------------------
\* a leaf of a JavaScript value, with what typeof says of it
JsString(s) == [t |-> "string", s |-> s, n |-> 0]
JsNumber(n) == [t |-> "number", s |-> "", n |-> n]
JsBigint(n) == [t |-> "bigint", s |-> "", n |-> n]
JsThrow(e) == [t |-> "throw", s |-> e, n |-> 0]

\* the bigints of the model and the texts that follow "n:" in its strings
BigInts == (-1)..110
NTails == { Dec(n) : n \in BigInts } \cup {"", "x"}

\* the strings of the model that begin with "n:"
NPrefixed == { "n:" \o d : d \in NTails }
StartsWithN(s) == s \in NPrefixed
\* v.slice(2) of a string that begins with "n:"
Slice2(s) == CHOOSE d \in NTails : "n:" \o d = s

\* BigInt(text): the integer written, 0n for the empty text, a SyntaxError
\* for a text that is no integer
BigInt(d) ==
  IF d = "" THEN Ok(0)
  ELSE IF \E n \in BigInts : Dec(n) = d
       THEN Ok(CHOOSE n \in BigInts : Dec(n) = d)
       ELSE Err("SyntaxError: Cannot convert " \o d \o " to a BigInt")

\* the replacer of canonicalStringify: a bigint is written as the string
\* "n:<digits>"
replacer(v) == IF v.t = "bigint" THEN JsString("n:" \o Dec(v.n)) ELSE v

\* the reviver of importTx: a string that starts with "n:" becomes a bigint
reviver(v) ==
  IF v.t = "string" /\ StartsWithN(v.s)
  THEN LET r == BigInt(Slice2(v.s))
       IN IF r.ok THEN JsBigint(r.val) ELSE JsThrow(r.err)
  ELSE v

\* a leaf as the caller holds it ("value"), as exportTx writes it ("json"),
\* and as importTx reads it back from there ("parsed")
Leaf(v, stage) ==
  CASE stage = "value" -> v
    [] stage = "json" -> replacer(v)
    [] stage = "parsed" -> reviver(replacer(v))

OptLeaf(o, stage) == IF o.has THEN Some(Leaf(JsString(o.v), stage)) ELSE None

RECURSIVE JsSeeds(_, _)
JsSeeds(seeds, stage) ==
  CASE seeds.kind = "%pkh" ->
         [kind |-> Leaf(JsString(seeds.kind), stage),
          threshold |-> Leaf(JsNumber(seeds.threshold), stage),
          pkhs |-> [i \in 1..Len(seeds.pkhs) |-> Leaf(JsString(seeds.pkhs[i]), stage)],
          signatures |-> [k \in DOMAIN seeds.signatures |->
                            Leaf(JsString(seeds.signatures[k]), stage)]]
    [] seeds.kind = "%hax" ->
         [kind |-> Leaf(JsString(seeds.kind), stage),
          preimage |-> OptLeaf(seeds.preimage, stage)]
    [] seeds.kind = "%tim" ->
         [kind |-> Leaf(JsString(seeds.kind), stage),
          notBefore |-> Leaf(JsNumber(seeds.notBefore), stage),
          inner |-> JsSeeds(seeds.inner, stage)]
    [] seeds.kind = "%brn" -> [kind |-> Leaf(JsString(seeds.kind), stage)]

\* the Transaction object, leaf by leaf; object keys are sorted by exportTx,
\* which an object does not show, and arrays keep their order
JsTx(tx, stage) ==
  [version |-> Leaf(JsNumber(tx.version), stage),
   network |-> OptLeaf(tx.network, stage),
   spends |-> [i \in 1..Len(tx.spends) |->
                 [noteId |-> Leaf(JsString(tx.spends[i].noteId), stage),
                  seeds |-> JsSeeds(tx.spends[i].seeds, stage)]],
   outputs |-> [i \in 1..Len(tx.outputs) |->
                  [address |-> Leaf(JsString(tx.outputs[i].address), stage),
                   amount |-> Leaf(JsBigint(tx.outputs[i].amount), stage),
                   assetId |-> OptLeaf(tx.outputs[i].assetId, stage)]],
   fee |-> Leaf(JsBigint(tx.fee), stage),
   unsignedHash |-> Leaf(JsString(tx.unsignedHash), stage)]

RECURSIVE SeedsStrings(_)
SeedsStrings(seeds) ==
  CASE seeds.kind = "%pkh" ->
         Range(seeds.pkhs) \cup { seeds.signatures[k] : k \in DOMAIN seeds.signatures }
    [] seeds.kind = "%hax" -> IF seeds.preimage.has THEN {seeds.preimage.v} ELSE {}
    [] seeds.kind = "%tim" -> SeedsStrings(seeds.inner)
    [] seeds.kind = "%brn" -> {}

\* the string values of tx
TxStrings(tx) ==
  {tx.unsignedHash} \cup (IF tx.network.has THEN {tx.network.v} ELSE {})
    \cup { tx.outputs[i].address : i \in 1..Len(tx.outputs) }
    \cup UNION { IF tx.outputs[i].assetId.has THEN {tx.outputs[i].assetId.v} ELSE {} :
                   i \in 1..Len(tx.outputs) }
    \cup { tx.spends[i].noteId : i \in 1..Len(tx.spends) }
    \cup UNION { SeedsStrings(tx.spends[i].seeds) : i \in 1..Len(tx.spends) }

exportTx(tx) == JsTx(tx, "json")

\* importTx(exportTx(tx)): JSON.parse with the reviver throws where BigInt
\* throws; the parsed object is then checked for its version and
\* unsignedHash (spends and outputs are arrays as exported)
importTxOfExport(tx) ==
  LET thrown == { reviver(JsString(x)) : x \in TxStrings(tx) }
      parsed == JsTx(tx, "parsed")
  IN IF \E v \in thrown : v.t = "throw"
     THEN Err((CHOOSE v \in thrown : v.t = "throw").s)
     ELSE IF parsed.version.t # "number" THEN Err("Invalid tx: missing version")
     ELSE IF parsed.unsignedHash.t # "string"
       THEN Err("Invalid tx: missing unsignedHash")
     ELSE Ok(parsed)

\* the transaction a party holds after importing what another exported; the
\* copies that parties pass on hold no string that starts with "n:"
importExported(tx) ==
  LET r == importTxOfExport(tx)
  IN IF ~r.ok THEN r
     ELSE IF r.val = JsTx(tx, "value") THEN Ok(tx)
     ELSE Err("Invalid tx")

\* ------------------------------------------------------------------------
\* The inputs the environment draws from
\* ------------------------------------------------------------------------
PA == "a"
PB == "b"
PC == "c"
\* an address-style identity: the string that is literally the pkh of PA
PLit == hashPubkey(PA)
Signers == {PA, PB, PLit}

L23 == PkhLock(2, <<hashPubkey(PC), hashPubkey(PA), hashPubkey(PB)>>)
L11 == PkhLock(1, <<hashPubkey(PA)>>)
LTim == TimLock(2, L11)
LHax == HaxLock("x")

N1 == Note(L23, "1", 5)
N2 == Note(L11, "2", 3)
N3 == Note(LTim, "3", 2)
N4 == Note(BrnLock, "4", 4)
N5 == Note(LHax, "5", 4)
NBadName == [N2 EXCEPT !.name = <<lockHash(L23), "2">>]
NZero == Note(L11, "2", 0)

O1 == Output("x", 2)
O2 == Output("y", 1)
OChange == Output("w", 1)

Args(notes, outputs, fee, change) ==
  [version |-> None, network |-> None, notes |-> notes, outputs |-> outputs,
   fee |-> fee, change |-> change]

\* the transactions the parties go on to sign
SignedBuilds ==
  { Args(<<N2, N1>>, <<O1, O2>>, 1, None),
    Args(<<N3, N4>>, <<O1>>, 0, Some(OChange)),
    Args(<<N5>>, <<O1>>, 1, None),
    Args(<<NBadName>>, <<O1>>, 0, None),
    Args(<<N2, N2>>, <<O1>>, 1, None) }

UnknownNoteId == "?"
TxNoteIds(tx) == { tx.spends[i].noteId : i \in 1..Len(tx.spends) }
BadSig == "bad"
Slots == 1..2
Times == 0..MaxNow

\* ------------------------------------------------------------------------
\* State
\* ------------------------------------------------------------------------
VARIABLES
  built,    \* the arguments of the build and the transaction it returned
  held,     \* slot -> the transaction value a party holds
  pending,  \* signSpend calls suspended at "await signer.sign(bytes)"
  last,     \* the error thrown by the last call, "" when it returned
  nsigs     \* number of signatures requested or attached so far

vars == <<built, held, pending, last, nsigs>>

Put(s, tx) == [x \in DOMAIN held \cup {s} |-> IF x = s THEN tx ELSE held[x]]

Init ==
  /\ built = <<>>
  /\ held = <<>>
  /\ pending = {}
  /\ last = ""
  /\ nsigs = 0

\* A call that throws leaves held and pending as they were; the run that
\* follows it is the run without it, so it is not explored again from there.
Running == last = ""

Build(s, args) ==
  /\ Running
  /\ built = <<>>
  /\ LET r == buildUnsignedTransaction(args)
     IN /\ built' = <<[args |-> args, res |-> r]>>
        /\ held' = IF r.ok THEN Put(s, r.val) ELSE held
        /\ last' = IF r.ok THEN "" ELSE r.err
  /\ UNCHANGED <<pending, nsigs>>

\* signSpend from its entry to the await on signer.sign
SignSpendCall(s, noteId, pubkey) ==
  /\ Running
  /\ s \in DOMAIN held
  /\ UNCHANGED <<built, held>>
  /\ LET tx == held[s]
         e == signSpendChecks(tx, noteId, pubkey)
     IN /\ last' = e
        /\ nsigs' = IF e = "" THEN nsigs + 1 ELSE nsigs
        /\ pending' = IF e = ""
                      THEN pending \cup {[tx |-> tx, noteId |-> noteId,
                                          pubkey |-> pubkey,
                                          bytes |-> encodeUnsignedPayload(tx),
                                          src |-> s]}
                      ELSE pending

\* signer.sign resolved to sig: signSpend verifies, attaches and returns; the
\* caller keeps the returned transaction in place of the one it passed
SignSpendReturn(call, sig) ==
  /\ Running
  /\ call \in pending
  /\ pending' = pending \ {call}
  /\ UNCHANGED <<built, nsigs>>
  /\ LET r == signSpendResume(call, sig)
     IN /\ held' = IF r.ok THEN Put(call.src, r.val) ELSE held
        /\ last' = IF r.ok THEN "" ELSE r.err

Attach(s, noteId, pubkey, sig) ==
  /\ Running
  /\ s \in DOMAIN held
  /\ LET r == attachSignatureToSpend(held[s], noteId, pubkey, sig)
     IN /\ held' = IF r.ok THEN Put(s, r.val) ELSE held
        /\ nsigs' = IF r.ok THEN nsigs + 1 ELSE nsigs
        /\ last' = IF r.ok THEN "" ELSE r.err
  /\ UNCHANGED <<built, pending>>

Merge(a, b) ==
  /\ Running
  /\ a \in DOMAIN held /\ b \in DOMAIN held
  /\ LET r == mergePartiallySignedTx(held[a], held[b])
     IN /\ held' = IF r.ok THEN Put(a, r.val) ELSE held
        /\ last' = IF r.ok THEN "" ELSE r.err
  /\ UNCHANGED <<built, pending, nsigs>>

\* a party exports its copy and another imports the text
Import(s, d) ==
  /\ Running
  /\ s \in DOMAIN held
  /\ LET r == importExported(held[s])
     IN /\ held' = IF r.ok THEN Put(d, r.val) ELSE held
        /\ last' = IF r.ok THEN "" ELSE r.err
  /\ UNCHANGED <<built, pending, nsigs>>

Next ==
  \/ \E args \in SignedBuilds : Build(1, args)
  \/ /\ nsigs < MaxSigs
     /\ Cardinality(pending) < MaxPending
     /\ \E s \in DOMAIN held, pk \in Signers :
          \E id \in TxNoteIds(held[s]) \cup {UnknownNoteId} :
             SignSpendCall(s, id, pk)
  \/ \E call \in pending :
        \E sig \in {mockSign(call.pubkey, call.bytes), BadSig} :
           SignSpendReturn(call, sig)
  \/ /\ nsigs < MaxSigs
     /\ \E s \in DOMAIN held, pk \in Signers :
          \E id \in TxNoteIds(held[s]) \cup {UnknownNoteId} :
             Attach(s, id, pk, BadSig)
  \/ \E a \in DOMAIN held, b \in DOMAIN held : Merge(a, b)
  \/ \E s \in DOMAIN held : \E d \in Slots \ {s} : Import(s, d)

Spec == Init /\ [][Next]_vars

\* ------------------------------------------------------------------------
\* The builder alone, over a wider range of arguments
\* ------------------------------------------------------------------------
LDup == PkhLock(1, <<hashPubkey(PA), hashPubkey(PA)>>)
LZero == PkhLock(0, <<hashPubkey(PA)>>)
LOver == PkhLock(2, <<hashPubkey(PA)>>)
NDup == Note(LDup, "6", 6)
NZeroT == Note(LZero, "7", 6)
NOver == Note(TimLock(1, LOver), "8", 6)

BuildNotes == {N1, N2, N3, N4, N5, NBadName, NZero, NDup, NZeroT, NOver}
BuildNoteLists ==
  {<<>>} \cup { <<n>> : n \in BuildNotes }
    \cup { <<n, m>> : n \in {N1, N2, N5, NZero}, m \in {N1, N2, N3, NBadName} }
BuildOutputLists ==
  { <<>>, <<O1>>, <<O2, O1>>, <<O1, O1>>, <<Output("x", 0)>>,
    <<Output("x", 6), O2>> }
BuildFees == {-1, 0, 1, 3}
BuildChanges == { None, Some(OChange), Some(Output("w", 0)) }

BuildArgs ==
  { Args(n, o, f, c) : n \in BuildNoteLists, o \in BuildOutputLists,
                       f \in BuildFees, c \in BuildChanges }

NextBuild == \E args \in BuildArgs : Build(1, args)

SpecBuild == Init /\ [][NextBuild]_vars

\* ------------------------------------------------------------------------
\* The two builders side by side: buildUnsignedTransaction over the
\* arguments above and buildSimpleTransaction over inputs, recipients, fees
\* and change addresses
\* ------------------------------------------------------------------------
NHundred == Note(L11, "9", 100)
OSixty == Output("x", 60)
FundsExample == Args(<<NHundred>>, <<OSixty>>, 50, None)

Recipient(address, amount) == [address |-> address, amount |-> amount]
SimpleInputs ==
  { <<N2>>, <<N1>>, <<N1, N2>>, <<NHundred>>, <<NBadName>>, <<N2, N2>>, <<NZero>> }
SimpleRecipients ==
  { <<>>, <<Recipient("x", 2)>>, <<Recipient("y", 1), Recipient("x", 2)>>,
    <<Recipient("x", 60)>> }
SimpleFees == {-1, 0, 1, 50}
SimpleChangeAddresses == { None, Some("w"), Some("") }
SimpleParams ==
  { [inputs |-> i, recipients |-> r, fee |-> f, changeAddress |-> c] :
      i \in SimpleInputs, r \in SimpleRecipients, f \in SimpleFees,
      c \in SimpleChangeAddresses }

BuildSimple(s, params) ==
  /\ Running
  /\ built = <<>>
  /\ LET r == buildSimpleTransaction(params)
     IN /\ built' = <<[params |-> params, res |-> r]>>
        /\ held' = IF r.ok THEN Put(s, r.val) ELSE held
        /\ last' = IF r.ok THEN "" ELSE r.err
  /\ UNCHANGED <<pending, nsigs>>

NextSimple ==
  \/ \E args \in BuildArgs \cup {FundsExample} : Build(1, args)
  \/ \E params \in SimpleParams : BuildSimple(1, params)

SpecSimple == Init /\ [][NextSimple]_vars

\* ------------------------------------------------------------------------
\* The 2-of-3 demo (runMultisigDemo): one note locked to P1, P2, P3, honest
\* signers, copies passed around by export/import and merged
\* ------------------------------------------------------------------------
DemoSigners == {PA, PB, PC}
DemoArgs == Args(<<N1>>, <<O1, O2>>, 2, None)
DemoSigs == MaxSigs + 1

NextDemo ==
  \/ Build(1, DemoArgs)
  \/ /\ nsigs < DemoSigs
     /\ Cardinality(pending) < MaxPending
     /\ \E s \in DOMAIN held, pk \in DemoSigners :
          SignSpendCall(s, NoteKey(N1), pk)
  \/ \E call \in pending :
        SignSpendReturn(call, mockSign(call.pubkey, call.bytes))
  \/ \E a \in DOMAIN held, b \in DOMAIN held : Merge(a, b)
  \/ \E s \in DOMAIN held : \E d \in Slots \ {s} : Import(s, d)

SpecDemo == Init /\ [][NextDemo]_vars

\* ------------------------------------------------------------------------
\* Merging alone: three transaction values as importTx hands them over
\* (unsignedHash is not re-verified on import), merged pairwise
\* ------------------------------------------------------------------------
MBase == buildUnsignedTransaction(Args(<<N1, N3>>, <<O1>>, 1, None)).val
\* MBase.spends[1] is the %tim spend of N3, MBase.spends[2] the %pkh spend of N1
MSigned(m) == [MBase EXCEPT !.spends[2].seeds.signatures = m]
MA == MSigned(PA :> "s1")
MA2 == MSigned(PA :> "t1")
MB == MSigned(PB :> "s2")
MAC == MSigned((PA :> "s1") @@ (PC :> "s3"))
MHash == [MA EXCEPT !.unsignedHash = "#other"]
MKind == [MBase EXCEPT !.spends[2].seeds = [kind |-> "%hax", preimage |-> None]]
MThr == [MB EXCEPT !.spends[2].seeds.threshold = 3]
MPkhs == [MB EXCEPT !.spends[2].seeds.pkhs = <<"#a", "#b">>]
MPerm == [MB EXCEPT !.spends[2].seeds.pkhs = <<"#c", "#a", "#b">>]
MNotBefore == [MBase EXCEPT !.spends[1].seeds.notBefore = 3]
MInnerThr == [MBase EXCEPT !.spends[1].seeds.inner.threshold = 2]
MInnerPkhs == [MBase EXCEPT !.spends[1].seeds.inner.pkhs = <<"#b">>]
MOnlyPkh == [MB EXCEPT !.spends = <<MB.spends[2]>>]
MOnlyTim == [MBase EXCEPT !.spends = <<MBase.spends[1]>>]

MergeTxs ==
  { MBase, MA, MA2, MB, MAC, MHash, MKind, MThr, MPkhs, MPerm, MNotBefore,
    MInnerThr, MInnerPkhs, MOnlyPkh, MOnlyTim }

InitMerge ==
  /\ built = <<>>
  /\ held \in { <<a, b, c>> : a \in MergeTxs, b \in MergeTxs, c \in MergeTxs }
  /\ pending = {}
  /\ last = ""
  /\ nsigs = 0

NextMerge == \E a \in DOMAIN held, b \in DOMAIN held : Merge(a, b)

SpecMerge == InitMerge /\ [][NextMerge]_vars

\* ------------------------------------------------------------------------
\* Concurrent callers: signSpend calls started on one transaction value meet
\* at the await on signer.sign in any order; every caller keeps what its
\* call returned next to the value it passed, and the results are merged
\* ------------------------------------------------------------------------
ConcBuilds == { DemoArgs, Args(<<N1, N2>>, <<O1>>, 1, None) }
ConcSigs == MaxSigs
ConcPending == MaxPending + 1

\* signer.sign resolved to sig: signSpend verifies, attaches and returns; the
\* caller keeps the returned transaction as a new value
SignSpendReturnTo(call, sig, d) ==
  /\ Running
  /\ call \in pending
  /\ d \notin DOMAIN held
  /\ pending' = pending \ {call}
  /\ UNCHANGED <<built, nsigs>>
  /\ LET r == signSpendResume(call, sig)
     IN /\ held' = IF r.ok THEN Put(d, r.val) ELSE held
        /\ last' = IF r.ok THEN "" ELSE r.err

NextConc ==
  \/ \E args \in ConcBuilds : Build(1, args)
  \/ /\ nsigs < ConcSigs
     /\ Cardinality(pending) < ConcPending
     /\ \E s \in DOMAIN held, pk \in DemoSigners :
          \E id \in TxNoteIds(held[s]) : SignSpendCall(s, id, pk)
  \/ \E call \in pending :
        SignSpendReturnTo(call, mockSign(call.pubkey, call.bytes), Len(held) + 1)
  \/ \E a \in DOMAIN held \ {1}, b \in DOMAIN held \ {1} : Merge(a, b)

SpecConc == Init /\ [][NextConc]_vars

\* ------------------------------------------------------------------------
\* Export and import of transactions whose strings and amounts a caller
\* chose: a signed two-spend transaction with its address, signature, signer
\* key, noteId, unsignedHash, fee and amount replaced
\* ------------------------------------------------------------------------
TripStrings == { "x", "n:7", "n:x", "n:" }
TripFees == { 0, 7, 100 }
TripAmounts == { 2, -1 }

TripTx(address, sig, key, noteId, h, fee, amount) ==
  [MBase EXCEPT !.outputs[1].address = address,
                !.outputs[1].amount = amount,
                !.spends[2].seeds.signatures = key :> sig,
                !.spends[1].noteId = noteId,
                !.unsignedHash = h,
                !.fee = fee]

TripTxs ==
  { TripTx(address, sig, key, noteId, h, fee, amount) :
      address \in TripStrings, sig \in TripStrings, key \in {PA, "n:7"},
      noteId \in {MBase.spends[1].noteId, "n:7"},
      h \in {MBase.unsignedHash, "n:7", "n:x"},
      fee \in TripFees, amount \in TripAmounts }

InitTrip ==
  /\ built = <<>>
  /\ held \in { <<tx>> : tx \in TripTxs }
  /\ pending = {}
  /\ last = ""
  /\ nsigs = 0

\* importTx(exportTx(held[s])): the value exported and what came back
RoundTrip(s) ==
  /\ Running
  /\ s \in DOMAIN held
  /\ built = <<>>
  /\ LET r == importTxOfExport(held[s])
     IN /\ built' = <<[args |-> JsTx(held[s], "value"), res |-> r]>>
        /\ last' = IF r.ok THEN "" ELSE r.err
  /\ UNCHANGED <<held, pending, nsigs>>

NextTrip == \E s \in DOMAIN held : RoundTrip(s)

SpecTrip == InitTrip /\ [][NextTrip]_vars

\* ------------------------------------------------------------------------
\* Notes under valid and invalid %pkh locks, bare and wrapped in %tim: built,
\* then signed, passed on and merged
\* ------------------------------------------------------------------------
NOverBare == Note(LOver, "8", 6)
LockNotes == {N1, N2, N3, NDup, NZeroT, NOver, NOverBare}
LockNoteLists ==
  { <<n>> : n \in LockNotes } \cup { <<n, m>> : n \in {N1, N3}, m \in LockNotes \ {N1, N3} }
    \cup { <<N3, N1>>, <<N1, N3>> }
LockBuilds == { Args(notes, <<O1>>, 1, None) : notes \in LockNoteLists }

NextLocks ==
  \/ \E args \in LockBuilds : Build(1, args)
  \/ /\ nsigs < MaxSigs
     /\ Cardinality(pending) < MaxPending
     /\ \E s \in DOMAIN held, pk \in {PA, PB} :
          \E id \in TxNoteIds(held[s]) : SignSpendCall(s, id, pk)
  \/ \E call \in pending :
        SignSpendReturn(call, mockSign(call.pubkey, call.bytes))
  \/ \E a \in DOMAIN held, b \in DOMAIN held : Merge(a, b)
  \/ \E s \in DOMAIN held : \E d \in Slots \ {s} : Import(s, d)

SpecLocks == Init /\ [][NextLocks]_vars

\* ------------------------------------------------------------------------
\* The same build asked twice, the second time with the notes, the outputs
\* and the pkhs of the locks in another order
\* ------------------------------------------------------------------------
L23Sorted == PkhLock(2, <<hashPubkey(PA), hashPubkey(PB), hashPubkey(PC)>>)
N1Sorted == Note(L23Sorted, "1", 5)
N3Outer == Note(TimLock(2, L23), "3", 2)
N3OuterSorted == Note(TimLock(2, L23Sorted), "3", 2)
\* two pairs of distinct outputs with one sort key: "|x|2" and "t|x|y|2"
ONoAsset == Output("x", 2)
OEmptyAsset == [address |-> "x", amount |-> 2, assetId |-> Some("")]
OBarAddress == [address |-> "x|y", amount |-> 2, assetId |-> Some("t")]
OBarAsset == [address |-> "y", amount |-> 2, assetId |-> Some("t|x")]

PermNoteLists ==
  { <<N1, N2>>, <<N2, N1>>, <<N1Sorted, N2>>, <<N2, N1Sorted>>,
    <<N3Outer, N2>>, <<N2, N3OuterSorted>>, <<N1>>, <<N1Sorted>> }
PermOutputLists ==
  { <<O1, O2>>, <<O2, O1>>, <<ONoAsset, OEmptyAsset>>, <<OEmptyAsset, ONoAsset>>,
    <<OBarAddress, OBarAsset>>, <<OBarAsset, OBarAddress>>, <<O1>> }
PermArgs ==
  { Args(n, o, f, None) : n \in PermNoteLists, o \in PermOutputLists, f \in {0, 1} }

\* buildUnsignedTransaction called a second time
BuildAgain(s, args) ==
  /\ Running
  /\ Len(built) = 1
  /\ LET r == buildUnsignedTransaction(args)
     IN /\ built' = Append(built, [args |-> args, res |-> r])
        /\ held' = IF r.ok THEN Put(s, r.val) ELSE held
        /\ last' = IF r.ok THEN "" ELSE r.err
  /\ UNCHANGED <<pending, nsigs>>

NextPerm ==
  \/ \E args \in PermArgs : Build(1, args)
  \/ \E args \in PermArgs :
        /\ built # <<>>
        /\ args.fee = built[1].args.fee
        /\ Len(args.notes) = Len(built[1].args.notes)
        /\ Len(args.outputs) = Len(built[1].args.outputs)
        /\ BuildAgain(2, args)

SpecPerm == Init /\ [][NextPerm]_vars

\* ------------------------------------------------------------------------
\* isTransactionFullySigned asked of two-spend transactions over seeds of
\* every kind and nesting, at every time
\* ------------------------------------------------------------------------
SPkhOpen == seedsFromLock(L11).val
SPkhDone == [SPkhOpen EXCEPT !.signatures = PA :> mockSign(PA, "m")]
SHax(preimage) == [kind |-> "%hax", preimage |-> preimage]
STim(t, inner) == [kind |-> "%tim", notBefore |-> t, inner |-> inner]
SBrn == [kind |-> "%brn"]
SatSeeds ==
  { SPkhOpen, SPkhDone, SHax(None), SHax(Some("p")), SHax(Some("")), SBrn,
    STim(2, SPkhDone), STim(2, SPkhOpen), STim(1, SHax(Some("p"))),
    STim(0, SBrn), STim(1, STim(3, SPkhDone)), STim(3, STim(1, SHax(None))),
    STim(0, STim(0, SBrn)) }
SatTxs ==
  { [MBase EXCEPT !.spends[1].seeds = s1, !.spends[2].seeds = s2] :
      s1 \in SatSeeds, s2 \in SatSeeds }

InitSat ==
  /\ built = <<>>
  /\ held \in { <<tx>> : tx \in SatTxs }
  /\ pending = {}
  /\ last = ""
  /\ nsigs = 0

\* isTransactionFullySigned(held[s], crypto, now): the answer is recorded
FullySigned(s, now) ==
  /\ Running
  /\ s \in DOMAIN held
  /\ built = <<>>
  /\ built' = <<[args |-> [tx |-> held[s], now |-> now],
                 res |-> isTransactionFullySigned(held[s], now)]>>
  /\ UNCHANGED <<held, pending, last, nsigs>>

NextSat == \E s \in DOMAIN held, now \in Times : FullySigned(s, now)

SpecSat == InitSat /\ [][NextSat]_vars

\* ------------------------------------------------------------------------
\* The wasm builder: fee and output amounts spread over the selected notes
\* ------------------------------------------------------------------------
\* a BuilderSpend: spend.input.note.assets is kept as spend.assets
BuilderSpend(inputId, assets) ==
  [inputId |-> inputId, assets |-> assets, fee |-> 0, seeds |-> <<>>]

getSpendUsed(spend) == spend.fee + SumAmounts(spend.seeds)

RECURSIVE FeeLoop(_, _, _)
FeeLoop(spends, i, remaining) ==
  IF i > Len(spends) \/ remaining <= 0
  THEN [spends |-> spends, remaining |-> remaining]
  ELSE LET capacity == spends[i].assets - getSpendUsed(spends[i])
       IN IF capacity <= 0
          THEN FeeLoop(spends, i + 1, remaining)
          ELSE LET feeShare == IF remaining <= capacity THEN remaining ELSE capacity
               IN FeeLoop([spends EXCEPT ![i].fee = @ + feeShare], i + 1,
                          remaining - feeShare)

\* mutant: the whole remaining fee goes to the first note that has room
RECURSIVE FeeLoopUncapped(_, _, _)
FeeLoopUncapped(spends, i, remaining) ==
  IF i > Len(spends) \/ remaining <= 0
  THEN [spends |-> spends, remaining |-> remaining]
  ELSE LET capacity == spends[i].assets - getSpendUsed(spends[i])
       IN IF capacity <= 0
          THEN FeeLoopUncapped(spends, i + 1, remaining)
          ELSE FeeLoopUncapped([spends EXCEPT ![i].fee = @ + remaining], i + 1, 0)

distributeFeeFirstFit(spends, totalFee) ==
  IF totalFee <= 0 THEN Ok(spends)
  ELSE LET r == FeeLoopUncapped(spends, 1, totalFee)
       IN IF r.remaining > 0
          THEN Err("Unable to allocate enough fee across the selected notes.")
          ELSE Ok(r.spends)

distributeFeeAcrossSpends(spends, totalFee) ==
  IF totalFee <= 0 THEN Ok(spends)
  ELSE LET r == FeeLoop(spends, 1, totalFee)
       IN IF r.remaining > 0
          THEN Err("Unable to allocate enough fee across the selected notes.")
          ELSE Ok(r.spends)

\* amounts.filter((item) => item.amount > 0n)
RECURSIVE PositiveAmounts(_)
PositiveAmounts(amounts) ==
  IF amounts = <<>> THEN <<>>
  ELSE (IF Head(amounts).amount > 0 THEN <<Head(amounts)>> ELSE <<>>)
       \o PositiveAmounts(Tail(amounts))

\* the while loop over one spend's capacity
RECURSIVE FillSpend(_, _, _)
FillSpend(spend, capacity, queue) ==
  IF ~(capacity > 0 /\ Len(queue) > 0)
  THEN [spend |-> spend, queue |-> queue]
  ELSE LET target == Head(queue)
           allocation == IF target.amount <= capacity THEN target.amount ELSE capacity
           left == target.amount - allocation
           seed == [lockId |-> target.lockId, amount |-> allocation]
       IN FillSpend([spend EXCEPT !.seeds = Append(@, seed)],
                    capacity - allocation,
                    IF left <= 0 THEN Tail(queue)
                    ELSE <<[target EXCEPT !.amount = left]>> \o Tail(queue))

RECURSIVE AmountLoop(_, _, _)
AmountLoop(spends, i, queue) ==
  IF i > Len(spends) \/ Len(queue) = 0
  THEN [spends |-> spends, queue |-> queue]
  ELSE LET capacity == spends[i].assets - getSpendUsed(spends[i])
       IN IF capacity <= 0
          THEN AmountLoop(spends, i + 1, queue)
          ELSE LET r == FillSpend(spends[i], capacity, queue)
               IN AmountLoop([spends EXCEPT ![i] = r.spend], i + 1, r.queue)

distributeAmountsFrom(spends, queue) ==
  LET r == AmountLoop(spends, 1, queue)
  IN IF \E k \in 1..Len(r.queue) : r.queue[k].amount > 0
     THEN Err("Unable to allocate outputs across the selected notes. Try selecting more notes.")
     ELSE Ok(r.spends)

\* mutant: the queue keeps the items whose amount is not positive
distributeAmountsUnfiltered(spends, amounts) == distributeAmountsFrom(spends, amounts)

distributeAmountsAcrossSpends(spends, amounts) ==
  distributeAmountsFrom(spends, PositiveAmounts(amounts))

calculateSpendTotals(spend) ==
  LET totalOutgoing == spend.fee + SumAmounts(spend.seeds)
  IN [totalOutgoing |-> totalOutgoing, remaining |-> spend.assets - totalOutgoing]

isSpendBalanced(spend) == calculateSpendTotals(spend).totalOutgoing <= spend.assets

\* buildWasmTransaction up to its first return: whether a builder is made
buildWasmTransaction(spends) ==
  LET allBalanced == Len(spends) > 0 /\ \A i \in 1..Len(spends) : isSpendBalanced(spends[i])
  IN [builder |-> allBalanced]

\* UI amounts are numbers of NOCK; the model counts them in quarters of a
\* nick, so that Math.round has something to round
toNicks(amount) == IF amount <= 0 THEN 0 ELSE (amount + 2) \div 4

\* String.prototype.trim on the addresses of the model
trim(str) ==
  CASE str = " " -> ""
    [] str = " A" -> "A"
    [] OTHER -> str

\* mutant: the pre-check leaves the fee out
lacksBalanceNoFee(totalOutputs, feeNicks, totalInputs) == totalOutputs > totalInputs

lacksBalance(totalOutputs, feeNicks, totalInputs) == totalOutputs + feeNicks > totalInputs

RECURSIVE SumAssets(_)
SumAssets(spends) == IF spends = <<>> THEN 0 ELSE Head(spends).assets + SumAssets(Tail(spends))

\* outputs.forEach: the recipient amounts, or the error of ensureRecipientLock
RECURSIVE outputAmounts(_)
outputAmounts(outputs) ==
  IF outputs = <<>> THEN Ok(<<>>)
  ELSE LET output == Head(outputs)
           rest == outputAmounts(Tail(outputs))
       IN IF output.address = "" \/ output.amount <= 0 THEN rest
          ELSE IF trim(output.address) = ""
          THEN Err("A valid recipient address is required before adding an output.")
          ELSE IF ~rest.ok THEN rest
          ELSE Ok(<<[lockId |-> "recipient:" \o trim(output.address),
                     amount |-> toNicks(output.amount)]>> \o rest.val)

\* seeds.forEach: the change amounts
RECURSIVE seedAmounts(_, _)
seedAmounts(seeds, lockId) ==
  IF seeds = <<>> THEN <<>>
  ELSE (IF Head(seeds).amount <= 0 THEN <<>>
        ELSE <<[lockId |-> lockId, amount |-> toNicks(Head(seeds).amount)]>>)
       \o seedAmounts(Tail(seeds), lockId)

\* buildWasmArtifacts with a multisig configuration that has public keys, no
\* destination lock, and addresses the wasm module accepts
buildWasmArtifacts(params) ==
  LET notes == params.notes
      recipients == outputAmounts(params.outputs)
      seedAddress == IF trim(params.changeAddress) # "" THEN trim(params.changeAddress)
                     ELSE trim(params.walletAddress)
      recipientAmounts ==
        recipients.val \o (IF Len(params.seeds) > 0
                           THEN seedAmounts(params.seeds, "recipient:" \o seedAddress)
                           ELSE <<>>)
      spends == [i \in 1..Len(notes) |-> BuilderSpend(notes[i].id, notes[i].assets)]
      feeNicks == toNicks(IF params.fee > 0 THEN params.fee ELSE 0)
      totalInputs == SumAssets(spends)
      totalOutputs == SumAmounts(recipientAmounts)
      withFee == distributeFeeAcrossSpends(spends, feeNicks)
      withAmounts == distributeAmountsAcrossSpends(withFee.val, recipientAmounts)
  IN IF Len(notes) = 0
     THEN Err("Please select at least one note before building a transaction.")
     ELSE IF \E i \in 1..Len(notes) : ~notes[i].protobufNote
     THEN Err("A selected note is missing on-chain data. Please refresh notes and try again.")
     ELSE IF ~recipients.ok THEN recipients
     ELSE IF Len(recipients.val) = 0
     THEN Err("Please enter at least one valid recipient with a positive amount.")
     ELSE IF Len(params.seeds) > 0 /\ seedAddress = ""
     THEN Err("Please provide a change address or connect your wallet before allocating change outputs.")
     ELSE IF lacksBalance(totalOutputs, feeNicks, totalInputs)
     THEN Err("Selected notes do not have enough balance for outputs plus fees.")
     ELSE IF ~withFee.ok THEN withFee
     ELSE IF ~withAmounts.ok THEN withAmounts
     ELSE Ok([spends |-> withAmounts.val,
              builder |-> buildWasmTransaction(withAmounts.val).builder])

\* the notes, fees and demands the builder is run on
WasmAssets == 0..3
WasmSpendLists ==
  { <<BuilderSpend("note-0", a)>> : a \in WasmAssets }
  \cup { <<BuilderSpend("note-0", a), BuilderSpend("note-1", b)>> : a \in WasmAssets, b \in WasmAssets }
  \cup { <<BuilderSpend("note-0", a), BuilderSpend("note-1", b), BuilderSpend("note-2", c)>> :
           a \in 1..2, b \in 0..2, c \in 1..2 }
  \cup { <<BuilderSpend("note-0", 70), BuilderSpend("note-1", 40)>> }
\* spends that already carry a seed within their note
WasmUsedSpendLists ==
  { [sp EXCEPT ![1].seeds = <<[lockId |-> "recipient:B", amount |-> 1]>>] :
      sp \in { x \in WasmSpendLists : x[1].assets >= 1 } }
WasmFees == 0..4
WasmLockIds == {"recipient:A", "recipient:B"}
WasmDemands == [lockId : WasmLockIds, amount : 0..3]
WasmDemandLists ==
  {<<>>} \cup { <<d>> : d \in WasmDemands }
  \cup { <<d, e>> : d \in { x \in WasmDemands : x.amount # 1 },
                     e \in { x \in WasmDemands : x.amount # 1 } }
  \cup { <<[lockId |-> "recipient:A", amount |-> 60], [lockId |-> "recipient:B", amount |-> 50]>> }
WasmOutputs == [address : {"A", " A", "B", " ", ""}, amount : {0, 1, 4, 8}]
WasmPairedOutputs ==
  { [address |-> "A", amount |-> 4], [address |-> "B", amount |-> 8],
    [address |-> " A", amount |-> 1] }
WasmOutputLists ==
  { <<o>> : o \in WasmOutputs }
  \cup { <<o, q>> : o \in WasmPairedOutputs, q \in WasmPairedOutputs }
  \cup { <<[address |-> "A", amount |-> 240], [address |-> "B", amount |-> 200]>> }
WasmNoteLists ==
  {<<>>, <<[id |-> "note-0", assets |-> 1, protobufNote |-> FALSE]>>}
  \cup { <<[id |-> "note-0", assets |-> a, protobufNote |-> TRUE]>> : a \in WasmAssets }
  \cup { <<[id |-> "note-0", assets |-> a, protobufNote |-> TRUE],
           [id |-> "note-1", assets |-> b, protobufNote |-> TRUE]>> : a \in 0..2, b \in 0..2 }
  \cup { <<[id |-> "note-0", assets |-> 70, protobufNote |-> TRUE],
           [id |-> "note-1", assets |-> 40, protobufNote |-> TRUE]>> }
\* the change seeds with the wallet and change addresses they come with
WasmChange ==
  { [seeds |-> <<>>, walletAddress |-> "", changeAddress |-> ""] }
  \cup { [seeds |-> <<[amount |-> 4]>>, walletAddress |-> a.w, changeAddress |-> a.c] :
           a \in { [w |-> "", c |-> ""], [w |-> "A", c |-> ""], [w |-> " ", c |-> "B"] } }
WasmParams ==
  { [notes |-> n, outputs |-> o, seeds |-> c.seeds, fee |-> f,
     walletAddress |-> c.walletAddress, changeAddress |-> c.changeAddress] :
      n \in WasmNoteLists, o \in WasmOutputLists, c \in WasmChange, f \in {-4, 0, 4, 8} }

\* distributeFeeAcrossSpends(spends, totalFee): the outcome is recorded
DistributeFee(spends, totalFee) ==
  /\ Running
  /\ built = <<>>
  /\ built' = <<[op |-> "fee", args |-> [spends |-> spends, totalFee |-> totalFee],
                 res |-> distributeFeeAcrossSpends(spends, totalFee)]>>
  /\ UNCHANGED <<held, pending, last, nsigs>>

\* distributeAmountsAcrossSpends on spends that carry their share of a fee
DistributeAmounts(fresh, totalFee, amounts) ==
  /\ Running
  /\ built = <<>>
  /\ distributeFeeAcrossSpends(fresh, totalFee).ok
  /\ LET spends == distributeFeeAcrossSpends(fresh, totalFee).val
     IN built' = <<[op |-> "amounts", args |-> [spends |-> spends, amounts |-> amounts],
                    res |-> distributeAmountsAcrossSpends(spends, amounts)]>>
  /\ UNCHANGED <<held, pending, last, nsigs>>

BuildWasmArtifacts(params) ==
  /\ Running
  /\ built = <<>>
  /\ built' = <<[op |-> "artifacts", args |-> params, res |-> buildWasmArtifacts(params)]>>
  /\ UNCHANGED <<held, pending, last, nsigs>>

NextWasm ==
  \/ \E spends \in WasmSpendLists \cup WasmUsedSpendLists, totalFee \in WasmFees :
        DistributeFee(spends, totalFee)
  \/ \E fresh \in WasmSpendLists, totalFee \in 0..2, amounts \in WasmDemandLists :
        DistributeAmounts(fresh, totalFee, amounts)
  \/ \E params \in WasmParams : BuildWasmArtifacts(params)

SpecWasm == Init /\ [][NextWasm]_vars

\* ------------------------------------------------------------------------
\* Signing with the Iris wallet
\* ------------------------------------------------------------------------
\* the object handed to encodeUnsignedPayload has no network field
buildSigningBytes(tx) ==
  encodeUnsignedPayload([spends |-> tx.spends, outputs |-> tx.outputs, fee |-> tx.fee,
                         version |-> tx.version, network |-> None])

\* the for loop of signTxWithIris from spend i on: the transaction and the
\* note ids signed so far, or what attachSignatureToSpend threw
RECURSIVE irisAttach(_, _, _, _, _, _)
irisAttach(tx, out, signed, i, pubkey, signature) ==
  IF i > Len(tx.spends) THEN Ok([tx |-> out, signedNoteIds |-> signed])
  ELSE LET sp == tx.spends[i]
       IN IF sp.seeds.kind # "%pkh" THEN irisAttach(tx, out, signed, i + 1, pubkey, signature)
          ELSE IF ~Includes(sp.seeds.pkhs, hashPubkey(pubkey))
          THEN irisAttach(tx, out, signed, i + 1, pubkey, signature)
          ELSE LET r == attachSignatureToSpend(out, sp.noteId, pubkey, signature)
               IN IF ~r.ok THEN r
                  ELSE irisAttach(tx, r.val, Append(signed, sp.noteId), i + 1,
                                  pubkey, signature)

\* signTxWithIris with a wallet whose session has the key pubkey and which
\* answers the signing request with signature
signTxWithIris(tx, pubkey, signature) ==
  LET bytes == buildSigningBytes(tx)
      r == irisAttach(tx, tx, <<>>, 1, pubkey, signature)
  IN IF ~verify(pubkey, bytes, signature)
     THEN Err("Wallet returned an invalid signature for the unsigned payload.")
     ELSE IF ~r.ok THEN r
     ELSE IF Len(r.val.signedNoteIds) = 0
     THEN Err("This wallet is not authorized to sign any of the selected inputs.")
     ELSE r

IrisNetworks == {None, Some("testnet"), Some("")}
IrisBuilds ==
  { [a EXCEPT !.network = n] :
      a \in SignedBuilds \cup {Args(<<N1>>, <<O1>>, 1, None)}, n \in IrisNetworks }

\* the wallet signs the bytes it is given, or answers with something else
SignTxWithIris(s, pubkey, honest) ==
  /\ Running
  /\ s \in DOMAIN held
  /\ nsigs < MaxSigs
  /\ LET signature == IF honest THEN mockSign(pubkey, buildSigningBytes(held[s])) ELSE BadSig
         r == signTxWithIris(held[s], pubkey, signature)
     IN /\ held' = IF r.ok THEN Put(s, r.val.tx) ELSE held
        /\ last' = IF r.ok THEN "" ELSE r.err
  /\ nsigs' = nsigs + 1
  /\ UNCHANGED <<built, pending>>

NextIris ==
  \/ \E args \in IrisBuilds : Build(1, args)
  \/ \E pubkey \in {PA, PB, PC}, honest \in BOOLEAN : SignTxWithIris(1, pubkey, honest)

SpecIris == Init /\ [][NextIris]_vars

\* ------------------------------------------------------------------------
\* Properties
\* ------------------------------------------------------------------------
HeldTxs == { held[s] : s \in DOMAIN held }
BuiltOk == built # <<>> /\ built[1].res.ok
PkhSpends(tx) == { i \in 1..Len(tx.spends) : tx.spends[i].seeds.kind = "%pkh" }
SigCount(tx) ==
  Cardinality(UNION { { <<i, k>> : k \in DOMAIN tx.spends[i].seeds.signatures } :
                        i \in PkhSpends(tx) })

\* C1: in every transaction reached from the build by signing, attaching and
\* merging, the signing bytes re-derived from the current transaction hash to
\* the unsignedHash fixed at build time, whatever signatures are attached.
C1_SigningBytesAreUnsignedBytes ==
  \A tx \in HeldTxs : hash(encodeUnsignedPayload(tx)) = tx.unsignedHash

\* C2: every transaction obtained from a built transaction by signSpend,
\* attachSignatureToSpend and mergePartiallySignedTx (held, or captured by a
\* suspended signSpend) carries the unsignedHash that building from the same
\* arguments yields.
C2_UnsignedHashStable ==
  BuiltOk =>
    LET h == buildUnsignedTransaction(built[1].args).val.unsignedHash
    IN /\ \A tx \in HeldTxs : tx.unsignedHash = h
       /\ \A c \in pending : c.tx.unsignedHash = h

C2_Witness ==
  /\ BuiltOk
  /\ \E tx \in HeldTxs : SigCount(tx) >= 2
  /\ Cardinality(DOMAIN held) = 2

RECURSIVE LockValid(_)
LockValid(lock) ==
  CASE lock.kind = "%pkh" ->
         /\ lock.threshold > 0
         /\ lock.threshold <= Len(lock.pkhs)
         /\ \A i, j \in 1..Len(lock.pkhs) : lock.pkhs[i] = lock.pkhs[j] => i = j
    [] lock.kind = "%tim" -> LockValid(lock.inner)
    [] OTHER -> TRUE

AllOutputs(args) ==
  IF args.change.has THEN args.outputs \o <<args.change.v>> ELSE args.outputs

ValidArgs(args) ==
  /\ \A i \in 1..Len(args.notes) :
        /\ args.notes[i].name[1] = lockHash(args.notes[i].lock)
        /\ args.notes[i].amount > 0
        /\ LockValid(args.notes[i].lock)
  /\ Len(AllOutputs(args)) >= 1
  /\ \A i \in 1..Len(AllOutputs(args)) : AllOutputs(args)[i].amount > 0
  /\ args.fee >= 0

\* C3: for valid (notes, outputs, fee, change) whose notes cover the outputs
\* (change included) plus the fee, buildUnsignedTransaction succeeds; and every
\* transaction it returns has sum(outputs) + fee <= sum(input notes).
C3_BuildSucceedsAndBalances ==
  built # <<>> =>
    LET args == built[1].args
        res == built[1].res
    IN /\ ( ValidArgs(args)
            /\ SumAmounts(args.notes) >= SumAmounts(AllOutputs(args)) + args.fee )
          => res.ok
       /\ res.ok =>
            SumAmounts(res.val.outputs) + res.val.fee <= SumAmounts(args.notes)

C3_Witness ==
  /\ BuiltOk
  /\ Len(built[1].args.notes) = 2
  /\ built[1].args.change.has
  /\ built[1].args.fee > 0
  /\ SumAmounts(built[1].res.val.outputs) + built[1].res.val.fee
       = SumAmounts(built[1].args.notes)

\* C4: in the 2-of-3 demo, whatever the order in which P1, P2, P3 sign and
\* whether they sign one copy in turn or separate copies that are merged, no
\* call fails, and a copy is fully signed (at any time) exactly when at least
\* two of the three have a signature on it -- so it is fully signed once two
\* have signed and stays so when the third signs.
C4_DemoFullySigned ==
  /\ last = ""
  /\ \A tx \in HeldTxs : \A now \in Times :
        isTransactionFullySigned(tx, now)
          <=> Cardinality(DOMAIN tx.spends[1].seeds.signatures \cap DemoSigners) >= 2

C4_Witness ==
  /\ last = ""
  /\ \E tx \in HeldTxs :
        /\ DOMAIN tx.spends[1].seeds.signatures = DemoSigners
        /\ isTransactionFullySigned(tx, 0)
  /\ \E tx \in HeldTxs : Cardinality(DOMAIN tx.spends[1].seeds.signatures) = 1

\* the %pkh seeds of a spend, at top level or inside %tim
RECURSIVE PkhSeedsIn(_)
PkhSeedsIn(seeds) ==
  CASE seeds.kind = "%pkh" -> {seeds}
    [] seeds.kind = "%tim" -> PkhSeedsIn(seeds.inner)
    [] OTHER -> {}

TxPkhSeeds(tx) == UNION { PkhSeedsIn(tx.spends[i].seeds) : i \in 1..Len(tx.spends) }

\* the entries of pkhs some key of the signature map resolves to
Members(seeds) ==
  { p \in Range(seeds.pkhs) :
      \E k \in DOMAIN seeds.signatures : hashPubkey(k) = p \/ k = p }

\* ... through a signature that verifies over the signing bytes of tx
ValidMembers(tx, seeds) ==
  { p \in Range(seeds.pkhs) :
      \E k \in DOMAIN seeds.signatures :
         /\ hashPubkey(k) = p \/ k = p
         /\ verify(k, encodeUnsignedPayload(tx), seeds.signatures[k]) }

\* C5: a %pkh seeds is reported complete only if at least threshold distinct
\* pkhs of the lock have an attached signature that verifies over the
\* transaction's signing bytes.
C5_CompleteOnlyWithValidSignatures ==
  \A tx \in HeldTxs : \A seeds \in TxPkhSeeds(tx) :
     isPkhComplete(seeds) => Cardinality(ValidMembers(tx, seeds)) >= seeds.threshold

\* C6: isPkhComplete is false with fewer than threshold distinct lock members
\* signed and true with threshold (or more) of them signed.
C6_ThresholdOverDistinctMembers ==
  \A tx \in HeldTxs : \A seeds \in TxPkhSeeds(tx) :
     isPkhComplete(seeds) <=> Cardinality(Members(seeds)) >= seeds.threshold

\* C7: countCollectedPkh counts each entry of pkhs that a signature key
\* resolves to once, however many keys resolve to it, and so never exceeds
\* the number of pkhs.
C7_CountIsResolvedPkhs ==
  \A tx \in HeldTxs : \A seeds \in TxPkhSeeds(tx) :
     /\ countCollectedPkh(seeds) = Cardinality(Members(seeds))
     /\ countCollectedPkh(seeds) <= Len(seeds.pkhs)

SpendsNamed(tx, noteId) == { i \in 1..Len(tx.spends) : tx.spends[i].noteId = noteId }
FirstNamed(tx, noteId) ==
  tx.spends[CHOOSE i \in SpendsNamed(tx, noteId) : \A j \in SpendsNamed(tx, noteId) : i <= j]

\* the error the claim gives signSpend(tx, noteId, signer pk), "" for none
SignSpendVerdict(tx, noteId, pk) ==
  IF SpendsNamed(tx, noteId) = {} THEN "Unknown noteId for spend"
  ELSE IF FirstNamed(tx, noteId).seeds.kind # "%pkh"
    THEN "signSpend: only %pkh supported"
  ELSE IF /\ ~Includes(FirstNamed(tx, noteId).seeds.pkhs, hashPubkey(pk))
          /\ ~Includes(FirstNamed(tx, noteId).seeds.pkhs, pk)
    THEN "Signer not in lock"
  ELSE ""

SignSpendErrors ==
  { "Unknown noteId for spend", "signSpend: only %pkh supported", "Signer not in lock" }

C9_SignSpendVerifiesBeforeAttaching ==
  /\ [](\A call \in pending : call.bytes = encodeUnsignedPayload(call.tx))
  /\ [][ \A call \in pending \ pending' :
           \A sig \in {mockSign(call.pubkey, call.bytes), BadSig} :
              ( /\ SignSpendReturn(call, sig)
                /\ ~verify(call.pubkey, encodeUnsignedPayload(call.tx), sig) )
              => /\ last' = "Signature verification failed"
                 /\ held' = held ]_vars

C9_Witness ==
  /\ last = "Signature verification failed"
  /\ \A tx \in HeldTxs : SigCount(tx) = 0
  /\ nsigs > 0

\* C10: a signSpend that returns hands back the transaction it was called
\* with, changed in exactly one spend -- the one named noteId, whose signature
\* map has the entry for the signer's pubkey set -- and equal in every other
\* spend, outputs, fee, version, network and unsignedHash; the transactions
\* held elsewhere are untouched.
C10_SignSpendFrame ==
  [][ \A call \in pending \ pending' :
        \A sig \in {mockSign(call.pubkey, call.bytes), BadSig} :
          ( SignSpendReturn(call, sig) /\ last' = "" )
          => LET tx == call.tx
                 out == held'[call.src]
             IN /\ Len(out.spends) = Len(tx.spends)
                /\ \E i \in 1..Len(tx.spends) :
                      /\ tx.spends[i].noteId = call.noteId
                      /\ out.spends[i] =
                           [tx.spends[i] EXCEPT !.seeds.signatures =
                              MapPut(tx.spends[i].seeds.signatures, call.pubkey, sig)]
                      /\ \A j \in 1..Len(tx.spends) \ {i} : out.spends[j] = tx.spends[j]
                /\ out.outputs = tx.outputs
                /\ out.fee = tx.fee
                /\ out.version = tx.version
                /\ out.network = tx.network
                /\ out.unsignedHash = tx.unsignedHash
                /\ \A x \in DOMAIN held \ {call.src} : held'[x] = held[x] ]_vars

\* spends of a and of b that carry the same noteId
SharedSpends(a, b) ==
  { <<i, j>> \in (1..Len(a.spends)) \X (1..Len(b.spends)) :
      a.spends[i].noteId = b.spends[j].noteId }

\* the two seeds differ in kind, or (%pkh) in threshold or in the set of
\* pkhs, or (%tim) in notBefore or, in one of these ways, in what they wrap
RECURSIVE SeedsMismatch(_, _)
SeedsMismatch(x, y) ==
  IF x.kind # y.kind THEN TRUE
  ELSE CASE x.kind = "%pkh" ->
              x.threshold # y.threshold \/ Range(x.pkhs) # Range(y.pkhs)
         [] x.kind = "%tim" ->
              x.notBefore # y.notBefore \/ SeedsMismatch(x.inner, y.inner)
         [] OTHER -> FALSE

MergeMismatch(a, b) ==
  \/ a.unsignedHash # b.unsignedHash
  \/ \E p \in SharedSpends(a, b) :
        SeedsMismatch(a.spends[p[1]].seeds, b.spends[p[2]].seeds)

\* C11: a merge of a and b whose unsignedHash differ, or in which a spend
\* present in both differs in seeds kind, in %pkh threshold or pkhs set (at
\* top level or inside %tim), or in %tim notBefore, fails and leaves every
\* transaction as it was.
C11_MergeRejectsMismatch ==
  [][ \A a \in DOMAIN held, b \in DOMAIN held :
        ( Merge(a, b) /\ MergeMismatch(held[a], held[b]) )
        => (last' # "" /\ held' = held) ]_vars

\* a merge has just failed on a %pkh threshold nested in %tim, the hashes
\* being equal
C11_Witness ==
  /\ last = "Cannot merge pkh seeds: threshold differs"
  /\ \A x \in DOMAIN held : held[x].unsignedHash = held[1].unsignedHash

\* C12: after a merge of a and b that succeeds, every %pkh spend of a that b
\* also has carries the union of the two signature maps: the keys are those
\* of a and of b together, a key of b has b's signature, and a key of a alone
\* has a's signature.
C12_MergeUnitesSignatures ==
  [][ \A a \in DOMAIN held, b \in DOMAIN held :
        ( Merge(a, b) /\ last' = "" )
        => \A p \in SharedSpends(held[a], held[b]) :
             held[a].spends[p[1]].seeds.kind = "%pkh"
             => LET sa == held[a].spends[p[1]].seeds.signatures
                    sb == held[b].spends[p[2]].seeds.signatures
                    out == held'[a].spends[p[1]].seeds.signatures
                IN /\ DOMAIN out = DOMAIN sa \cup DOMAIN sb
                   /\ \A k \in DOMAIN sb : out[k] = sb[k]
                   /\ \A k \in DOMAIN sa \ DOMAIN sb : out[k] = sa[k] ]_vars

\* a merged copy in which the colliding key carries the second side's
\* signature next to a key that only the first side had
C12_Witness ==
  /\ last = ""
  /\ \E x \in DOMAIN held : \E i \in PkhSpends(held[x]) :
        held[x].spends[i].seeds.signatures = (PA :> "t1") @@ (PC :> "s3")

\* the (noteId, pubkey) pairs under which tx holds a signature
SigKeys(tx) ==
  UNION { { <<tx.spends[i].noteId, k>> : k \in DOMAIN tx.spends[i].seeds.signatures } :
            i \in PkhSpends(tx) }

\* merge(merge(a,b),c) and merge(a,merge(b,c)) both return, return the same
\* transaction, and it holds a signature under every key of a, b and c
MergeAssociates(a, b, c) ==
  LET ab == mergePartiallySignedTx(a, b)
      bc == mergePartiallySignedTx(b, c)
  IN /\ ab.ok /\ bc.ok
     /\ LET l == mergePartiallySignedTx(ab.val, c)
            r == mergePartiallySignedTx(a, bc.val)
        IN /\ l.ok /\ r.ok
           /\ l.val = r.val
           /\ SigKeys(l.val) = SigKeys(a) \cup SigKeys(b) \cup SigKeys(c)

\* a and b spend the same notes, each once
SameNotes(a, b) ==
  /\ TxNoteIds(a) = TxNoteIds(b)
  /\ \A id \in TxNoteIds(a) :
        Cardinality(SpendsNamed(a, id)) = 1 /\ Cardinality(SpendsNamed(b, id)) = 1

\* C13 as stated: three transactions with one unsignedHash merge to the same
\* transaction in either grouping, and it carries the signatures of all three.
C13_SameHashMergeAssociates ==
  ( held[1].unsignedHash = held[2].unsignedHash
    /\ held[2].unsignedHash = held[3].unsignedHash )
  => MergeAssociates(held[1], held[2], held[3])

\* C13: three transactions with one unsignedHash that spend the same notes,
\* each once, with seeds that agree in kind, threshold, pkhs set and
\* notBefore, merge to the same transaction in either grouping, and it
\* carries the signatures of all three.
C13_SameSpendsMergeAssociates ==
  ( /\ SameNotes(held[1], held[2]) /\ SameNotes(held[2], held[3])
    /\ ~MergeMismatch(held[1], held[2])
    /\ ~MergeMismatch(held[2], held[3])
    /\ ~MergeMismatch(held[1], held[3]) )
  => MergeAssociates(held[1], held[2], held[3])

\* three copies of one transaction signed by three different keys, one key
\* colliding with another signature
C13_Witness ==
  /\ SameNotes(held[1], held[2]) /\ SameNotes(held[2], held[3])
  /\ ~MergeMismatch(held[1], held[2]) /\ ~MergeMismatch(held[2], held[3])
  /\ SigKeys(held[1]) # {} /\ SigKeys(held[2]) \ SigKeys(held[1]) # {}
  /\ SigKeys(held[3]) \ (SigKeys(held[1]) \cup SigKeys(held[2])) # {}
  /\ MergeAssociates(held[1], held[2], held[3])

\* C14: a merge of a and b that succeeds returns a's spends in a's order (as
\* many spends, each with a's noteId at its place; a spend that b lacks is
\* a's spend unchanged; no noteId of b alone appears) under a's version,
\* network, outputs, fee and unsignedHash, and no other transaction changes.
C14_MergeFrame ==
  [][ \A a \in DOMAIN held, b \in DOMAIN held :
        ( Merge(a, b) /\ last' = "" )
        => LET A == held[a]
               R == held'[a]
           IN /\ Len(R.spends) = Len(A.spends)
              /\ \A i \in 1..Len(A.spends) :
                    /\ R.spends[i].noteId = A.spends[i].noteId
                    /\ SpendsNamed(held[b], A.spends[i].noteId) = {}
                         => R.spends[i] = A.spends[i]
              /\ R.version = A.version /\ R.network = A.network
              /\ R.outputs = A.outputs /\ R.fee = A.fee
              /\ R.unsignedHash = A.unsignedHash
              /\ \A x \in DOMAIN held \ {a} : held'[x] = held[x] ]_vars

\* a two-spend copy took the signature of a copy that holds only one of the
\* two spends, next to a copy that holds only the other
C14_Witness ==
  /\ last = ""
  /\ \E x \in DOMAIN held, y \in DOMAIN held, z \in DOMAIN held :
        /\ Len(held[x].spends) = 2 /\ held[y] = MOnlyPkh /\ held[z] = MOnlyTim
        /\ \E i \in PkhSpends(held[x]) :
              DOMAIN held[x].spends[i].seeds.signatures = {PA, PB}

\* r is tx with one more signature: under pk, on the spends named noteId,
\* verifying over the bytes signed, everything else being as in tx
AddsOwnSignature(tx, noteId, pk, bytes, r) ==
  /\ r.version = tx.version /\ r.network = tx.network /\ r.fee = tx.fee
  /\ r.outputs = tx.outputs /\ r.unsignedHash = tx.unsignedHash
  /\ Len(r.spends) = Len(tx.spends)
  /\ \A i \in 1..Len(tx.spends) :
        IF tx.spends[i].noteId # noteId THEN r.spends[i] = tx.spends[i]
        ELSE LET old == tx.spends[i].seeds.signatures
                 new == r.spends[i].seeds.signatures
             IN /\ r.spends[i].noteId = noteId
                /\ r.spends[i].seeds.kind = "%pkh"
                /\ r.spends[i].seeds.pkhs = tx.spends[i].seeds.pkhs
                /\ r.spends[i].seeds.threshold = tx.spends[i].seeds.threshold
                /\ DOMAIN new = DOMAIN old \cup {pk}
                /\ \A k \in DOMAIN old \ {pk} : new[k] = old[k]
                /\ verify(pk, bytes, new[pk])

\* C15: signSpend calls started on one transaction value by authorized
\* signers and resumed in any order each return that value with exactly the
\* caller's own signature added; a return changes neither the value passed,
\* nor any other transaction held, nor another call in flight; and merging
\* any two results gives a transaction with the signatures of both.
C15_ConcurrentSigningSafe ==
  /\ []( /\ (1 \in DOMAIN held => held[1] = built[1].res.val)
         /\ \A x \in DOMAIN held, y \in DOMAIN held :
               LET m == mergePartiallySignedTx(held[x], held[y])
               IN m.ok /\ SigKeys(m.val) = SigKeys(held[x]) \cup SigKeys(held[y]) )
  /\ [][ \A call \in pending \ pending' :
           /\ last' = ""
           /\ pending' = pending \ {call}
           /\ DOMAIN held' = DOMAIN held \cup {Len(held) + 1}
           /\ \A x \in DOMAIN held : held'[x] = held[x]
           /\ AddsOwnSignature(call.tx, call.noteId, call.pubkey, call.bytes,
                               held'[Len(held) + 1]) ]_vars

\* two signers signed the built transaction, each call starting from the
\* unsigned value, and the merge of the two results holds both signatures
\* while the shared value holds none
C15_Witness ==
  /\ last = "" /\ pending = {} /\ Len(held) = 3
  /\ SigKeys(held[1]) = {}
  /\ Cardinality(SigKeys(held[3])) = 1
  /\ Cardinality(SigKeys(held[2])) = 2
  /\ SigKeys(held[3]) \subseteq SigKeys(held[2])
  /\ TxNoteIds(held[1]) = {NoteKey(N1), NoteKey(N2)}

\* C16: importTx(exportTx(tx)) returns, and returns a value equal to tx leaf
\* by leaf: every bigint the same bigint, every string the same string.
C16_RoundTrip ==
  built # <<>> => ( built[1].res.ok /\ built[1].res.val = built[1].args )

\* the notes of a list, each at its first place only
RECURSIVE OncePerNote(_)
OncePerNote(notes) ==
  IF notes = <<>> THEN <<>>
  ELSE LET rest == OncePerNote(SubSeq(notes, 1, Len(notes) - 1))
           n == notes[Len(notes)]
       IN IF n \in Range(rest) THEN rest ELSE Append(rest, n)

\* C17: a transaction returned by buildUnsignedTransaction has one spend per
\* input note, no two spends with one noteId, and is covered by the input
\* notes with each note's amount counted once.
C17_EachNoteSpentOnce ==
  BuiltOk =>
    LET tx == built[1].res.val
        notes == built[1].args.notes
    IN /\ \A i \in 1..Len(tx.spends), j \in 1..Len(tx.spends) :
            i # j => tx.spends[i].noteId # tx.spends[j].noteId
       /\ Len(tx.spends) = Len(OncePerNote(notes))
       /\ sumInputs(OncePerNote(notes)) >= sumOutputs(tx.outputs) + tx.fee

\* the build recorded is one of buildSimpleTransaction
IsSimple == "params" \in DOMAIN built[1]
\* what the builder was given: notes, outputs (the change output included;
\* the recipients for buildSimpleTransaction) and fee
GivenNotes == IF IsSimple THEN built[1].params.inputs ELSE built[1].args.notes
GivenOutputs ==
  IF IsSimple THEN built[1].params.recipients
  ELSE IF built[1].args.change.has
       THEN Append(built[1].args.outputs, built[1].args.change.v)
       ELSE built[1].args.outputs
GivenFee == IF IsSimple THEN built[1].params.fee ELSE built[1].args.fee
Available == SumAmounts(GivenNotes)
Needed == SumAmounts(GivenOutputs) + GivenFee

\* every text an insufficient-funds error of the two builders can have
FundsAmounts == (-1)..110
FundsErrors ==
  { "Insufficient funds: inputs=" \o Dec(i) \o " outputs+fee=" \o Dec(n) :
      i \in FundsAmounts, n \in FundsAmounts }
  \cup { "Insufficient funds: need " \o Dec(n) \o ", have " \o Dec(i) :
           i \in FundsAmounts, n \in FundsAmounts }
\* the insufficient-funds error that reports Needed and Available
FundsErrorDue ==
  IF IsSimple
  THEN "Insufficient funds: need " \o Dec(Needed) \o ", have " \o Dec(Available)
  ELSE "Insufficient funds: inputs=" \o Dec(Available) \o " outputs+fee=" \o Dec(Needed)

\* buildUnsignedTransaction reaches its funds check: the notes are valid,
\* there is an output, every output amount is > 0 and the fee is >= 0
PassesEarlierChecks ==
  /\ validateNotes(GivenNotes) = ""
  /\ GivenOutputs # <<>>
  /\ \A i \in 1..Len(GivenOutputs) : GivenOutputs[i].amount > 0
  /\ GivenFee >= 0

\* C18 as stated: either builder fails with the insufficient-funds error
\* that reports needed and available, and returns no transaction, exactly
\* when the inputs sum to less than outputs plus fee.
C18_InsufficientExactly ==
  built # <<>> =>
    /\ (Available < Needed) <=> (last \in FundsErrors)
    /\ last \in FundsErrors => (last = FundsErrorDue /\ ~built[1].res.ok /\ held = <<>>)

\* C18: buildSimpleTransaction fails with the insufficient-funds error
\* exactly when the inputs sum to less than recipients plus fee;
\* buildUnsignedTransaction fails with it exactly when its arguments pass the
\* earlier checks and the notes sum to less than outputs (change included)
\* plus fee; the error reports needed and available and no transaction is
\* returned.
C18_InsufficientWhenChecked ==
  built # <<>> =>
    /\ (Available < Needed /\ (IsSimple \/ PassesEarlierChecks))
         <=> (last \in FundsErrors)
    /\ last \in FundsErrors => (last = FundsErrorDue /\ ~built[1].res.ok /\ held = <<>>)

\* the example: one note of 100, one output of 60, fee 50
C18_Witness ==
  /\ built # <<>> /\ ~IsSimple /\ PassesEarlierChecks
  /\ Available = 100 /\ Needed = 110
  /\ last = "Insufficient funds: inputs=100 outputs+fee=110"
  /\ held = <<>>

\* the recipients of the recorded buildSimpleTransaction, as outputs
RecipientOutputs ==
  [i \in 1..Len(built[1].params.recipients) |->
     Output(built[1].params.recipients[i].address, built[1].params.recipients[i].amount)]
\* a change address is given (a non-empty string)
ChangeAddressGiven ==
  built[1].params.changeAddress.has /\ built[1].params.changeAddress.v # ""

\* C19: with change = sum(inputs) - sum(recipients) - fee, a transaction
\* returned by buildSimpleTransaction has the recipients as outputs, followed
\* by one change output of amount change to the change address exactly when
\* change > 0 and a change address is given, and then outputs plus fee equal
\* the inputs; with change > 0 and no change address, inputs and recipients
\* that pass the builder's checks still build, the outputs are the recipients
\* and outputs plus fee stay below the inputs.
C19_SimpleChange ==
  (built # <<>> /\ IsSimple) =>
    LET change == Available - Needed
        res == built[1].res
    IN /\ res.ok =>
            /\ res.val.fee = GivenFee
            /\ IF change > 0 /\ ChangeAddressGiven
               THEN /\ res.val.outputs =
                         Append(RecipientOutputs,
                                Output(built[1].params.changeAddress.v, change))
                    /\ SumAmounts(res.val.outputs) + res.val.fee = Available
               ELSE res.val.outputs = RecipientOutputs
       /\ (change > 0 /\ ~ChangeAddressGiven /\ PassesEarlierChecks) =>
            /\ res.ok
            /\ SumAmounts(res.val.outputs) + res.val.fee < Available
       /\ (change >= 0 /\ PassesEarlierChecks) => res.ok

\* a build with change: two recipients and a third output, the change
C19_Witness ==
  /\ built # <<>> /\ IsSimple /\ built[1].res.ok
  /\ Available - Needed > 0 /\ ChangeAddressGiven
  /\ Len(built[1].params.recipients) = 2
  /\ Len(held[1].outputs) = 3
  /\ held[1].outputs[3] = Output("w", Available - Needed)

\* C20: buildUnsignedTransaction fails and returns no transaction when a
\* note's name[0] is not lockHash of its lock or its amount is <= 0; every
\* spend of a transaction it returns is the spend of an input note whose
\* noteId is lockHash(lock) "." name[1] and whose seeds come from that lock.
C20_NotesMatchTheirLocks ==
  built # <<>> =>
    LET notes == built[1].args.notes
        res == built[1].res
    IN /\ ( \E i \in 1..Len(notes) :
              notes[i].name[1] # lockHash(notes[i].lock) \/ notes[i].amount <= 0 )
            => (~res.ok /\ held = <<>>)
       /\ res.ok =>
            \A k \in 1..Len(res.val.spends) :
               \E i \in 1..Len(notes) :
                  /\ res.val.spends[k].noteId =
                       lockHash(notes[i].lock) \o "." \o notes[i].name[2]
                  /\ seedsFromLock(notes[i].lock).ok
                  /\ res.val.spends[k].seeds = seedsFromLock(notes[i].lock).val

\* a build was refused for a note named after another lock, behind a valid
\* note
C20_Witness ==
  /\ built # <<>>
  /\ Len(built[1].args.notes) = 2
  /\ built[1].args.notes[2] = NBadName
  /\ last = "Note.name[0] mismatch"
  /\ held = <<>>

\* C21: a build with a note whose lock holds, bare or inside %tim, a %pkh
\* lock with threshold <= 0, threshold above the number of pkhs or a pkh
\* twice fails and returns no transaction; and in every transaction built,
\* signed, passed on or merged every %pkh seeds has 0 < threshold <= |pkhs|
\* with pkhs pairwise distinct and ascending.
C21_PkhLocksValid ==
  /\ built # <<>> =>
       ( (\E i \in 1..Len(built[1].args.notes) : ~LockValid(built[1].args.notes[i].lock))
         => (~built[1].res.ok /\ held = <<>>) )
  /\ \A tx \in HeldTxs : \A sd \in TxPkhSeeds(tx) :
        /\ 0 < sd.threshold /\ sd.threshold <= Len(sd.pkhs)
        /\ \A i \in 1..Len(sd.pkhs), j \in 1..Len(sd.pkhs) :
              i < j => StrLt(sd.pkhs[i], sd.pkhs[j])

\* a note whose %tim lock wraps a 2-of-1 %pkh lock was refused behind a
\* valid note
C21_Witness ==
  /\ built # <<>>
  /\ Len(built[1].args.notes) = 2
  /\ built[1].args.notes[2] = NOver
  /\ last = "Threshold cannot exceed number of pkhs"
  /\ held = <<>>

\* C22: a transaction returned by buildUnsignedTransaction has one spend per
\* note in the order of the notes given: the i-th spend carries the noteId
\* of the i-th note.
C22_SpendsInInputOrder ==
  BuiltOk =>
    /\ Len(built[1].res.val.spends) = Len(built[1].args.notes)
    /\ \A i \in 1..Len(built[1].args.notes) :
          built[1].res.val.spends[i].noteId = noteIdFromName(built[1].args.notes[i].name)

\* y is x in another order
IsPermutation(x, y) ==
  /\ Len(x) = Len(y)
  /\ \E p \in Permutations(1..Len(x)) : \A i \in 1..Len(x) : y[i] = x[p[i]]

\* the two locks differ at most in the order of the pkhs of their %pkh locks
RECURSIVE LockSame(_, _)
LockSame(a, b) ==
  IF a.kind # b.kind THEN FALSE
  ELSE CASE a.kind = "%pkh" -> a.threshold = b.threshold /\ IsPermutation(a.pkhs, b.pkhs)
         [] a.kind = "%tim" -> a.notBefore = b.notBefore /\ LockSame(a.inner, b.inner)
         [] OTHER -> a = b

\* the notes of y are those of x in another order, up to the order of pkhs
NotesSame(x, y) ==
  /\ Len(x) = Len(y)
  /\ \E p \in Permutations(1..Len(x)) : \A i \in 1..Len(x) :
        /\ y[i].name = x[p[i]].name /\ y[i].amount = x[p[i]].amount
        /\ y[i].assetId = x[p[i]].assetId
        /\ LockSame(y[i].lock, x[p[i]].lock)

\* C23: two builds whose arguments differ only in the order of the notes, of
\* the outputs and of the pkhs inside the locks succeed or fail together and
\* give the same unsignedHash, and the locks so related have one lockHash.
C23_HashIgnoresOrder ==
  ( /\ Len(built) = 2
    /\ NotesSame(built[1].args.notes, built[2].args.notes)
    /\ IsPermutation(built[1].args.outputs, built[2].args.outputs) )
  => /\ built[1].res.ok <=> built[2].res.ok
     /\ built[1].res.ok => built[1].res.val.unsignedHash = built[2].res.val.unsignedHash
     /\ \A i \in 1..Len(built[1].args.notes), j \in 1..Len(built[2].args.notes) :
           LockSame(built[1].args.notes[i].lock, built[2].args.notes[j].lock)
           => lockHash(built[1].args.notes[i].lock) = lockHash(built[2].args.notes[j].lock)

\* seeds satisfied at time now: %pkh when complete, %hax when a preimage (a
\* non-empty string) is present, %tim when now >= notBefore and what it
\* wraps is satisfied, %brn never
RECURSIVE Satisfied(_, _)
Satisfied(seeds, now) ==
  CASE seeds.kind = "%pkh" -> countCollectedPkh(seeds) >= seeds.threshold
    [] seeds.kind = "%hax" -> seeds.preimage.has /\ seeds.preimage.v # ""
    [] seeds.kind = "%tim" -> now >= seeds.notBefore /\ Satisfied(seeds.inner, now)
    [] seeds.kind = "%brn" -> FALSE

RECURSIVE HasBurn(_)
HasBurn(seeds) ==
  CASE seeds.kind = "%brn" -> TRUE
    [] seeds.kind = "%tim" -> HasBurn(seeds.inner)
    [] OTHER -> FALSE

\* C24: isTransactionFullySigned(tx, now) answers true exactly when every
\* spend's seeds are satisfied at now, and never for a transaction with %brn
\* seeds at any depth.
C24_FullySignedIffSatisfied ==
  built # <<>> =>
    LET tx == built[1].args.tx
        now == built[1].args.now
    IN /\ built[1].res <=> \A i \in 1..Len(tx.spends) : Satisfied(tx.spends[i].seeds, now)
       /\ (\E i \in 1..Len(tx.spends) : HasBurn(tx.spends[i].seeds)) => ~built[1].res

\* fully signed exactly from the time the nested time locks open: a complete
\* %pkh under two %tim and a %hax with its preimage under one
C24_Witness ==
  /\ built # <<>> /\ built[1].res
  /\ built[1].args.now = 3
  /\ built[1].args.tx.spends[1].seeds = STim(1, STim(3, SPkhDone))
  /\ built[1].args.tx.spends[2].seeds = STim(1, SHax(Some("p")))

\* what a spend has given away, and the room the spends have left
Used(spend) == spend.fee + SumAmounts(spend.seeds)
RECURSIVE TotalFree(_)
TotalFree(spends) ==
  IF spends = <<>> THEN 0
  ELSE (IF Head(spends).assets > Used(Head(spends))
        THEN Head(spends).assets - Used(Head(spends)) ELSE 0) + TotalFree(Tail(spends))
\* the fee the first i spends were given by a call
RECURSIVE FeeGiven(_, _, _)
FeeGiven(out, in, i) ==
  IF i = 0 THEN 0 ELSE (out[i].fee - in[i].fee) + FeeGiven(out, in, i - 1)
FeeCall == built # <<>> /\ built[1].op = "fee"

\* C25: the fee goes to the spends in input order, each taking the smaller
\* of what is left of the fee and the room left in its note; the call
\* succeeds exactly when the spends' free room covers the fee, and then the
\* shares add up to the fee, no spend gives away more than its note, and a
\* later note pays only when every earlier one is used up.
C25_FeeInInputOrder ==
  FeeCall =>
    LET in == built[1].args.spends
        fee == built[1].args.totalFee
        res == built[1].res
        n == Len(in)
    IN /\ res.ok <=> TotalFree(in) >= fee
       /\ res.ok =>
            /\ Len(res.val) = n
            /\ FeeGiven(res.val, in, n) = fee
            /\ \A i \in 1..n :
                 LET left == fee - FeeGiven(res.val, in, i - 1)
                     room == in[i].assets - Used(in[i])
                 IN /\ res.val[i].fee - in[i].fee = (IF left <= room THEN left ELSE room)
                    /\ res.val[i].seeds = in[i].seeds
                    /\ res.val[i].assets = in[i].assets
                    /\ Used(res.val[i]) <= res.val[i].assets
            /\ \A i \in 1..n, j \in 1..n :
                 (i < j /\ res.val[j].fee > in[j].fee) => Used(res.val[i]) = res.val[i].assets

\* a fee of 3 over notes of 2, 0 and 2: the first pays 2, the third 1
C25_Witness ==
  /\ FeeCall /\ built[1].res.ok
  /\ built[1].args.totalFee = 3
  /\ Len(built[1].res.val) = 3
  /\ built[1].res.val[1].fee = 2 /\ built[1].res.val[2].fee = 0 /\ built[1].res.val[3].fee = 1

\* all seeds of the spends, in order
RECURSIVE AllSeeds(_)
AllSeeds(spends) == IF spends = <<>> THEN <<>> ELSE Head(spends).seeds \o AllSeeds(Tail(spends))
\* the amount of the first m items
RECURSIVE PrefixAmount(_, _)
PrefixAmount(items, m) == IF m = 0 THEN 0 ELSE items[m].amount + PrefixAmount(items, m - 1)
\* the lock the k-th unit of a list of amounts belongs to
RECURSIVE LockAt(_, _)
LockAt(items, k) ==
  IF k <= Head(items).amount THEN Head(items).lockId
  ELSE LockAt(Tail(items), k - Head(items).amount)
AmountsCall == built # <<>> /\ built[1].op = "amounts"
ExampleDemands ==
  <<[lockId |-> "recipient:A", amount |-> 60], [lockId |-> "recipient:B", amount |-> 50]>>

\* C26: the demands are served from the front of the queue by the notes in
\* input order, a demand being split where a note runs out; the call fails
\* exactly when the notes' free room is less than the demand, and on success
\* every demand is met exactly by seeds of its own, every seed is positive,
\* no spend gives away more than its note, and demands and notes are taken in
\* order (notes 70 and 40 with demands A:60, B:50 give A:60, B:10 and B:40).
C26_DemandsInArrivalOrder ==
  AmountsCall =>
    LET in == built[1].args.spends
        amounts == built[1].args.amounts
        res == built[1].res
        n == Len(in)
        total == SumAmounts(amounts)
    IN /\ res.ok <=> total <= TotalFree(in)
       /\ res.ok =>
            LET seeds == AllSeeds(res.val)
            IN /\ Len(res.val) = n
               /\ SumAmounts(seeds) = total
               /\ \A k \in 1..total : LockAt(seeds, k) = LockAt(amounts, k)
               /\ \A d \in 1..Len(amounts) :
                    \E m \in 0..Len(seeds) : PrefixAmount(seeds, m) = PrefixAmount(amounts, d)
               /\ \A k \in 1..Len(seeds) : seeds[k].amount > 0
               /\ \A i \in 1..n : /\ Used(res.val[i]) <= res.val[i].assets
                                  /\ res.val[i].fee = in[i].fee
                                  /\ res.val[i].assets = in[i].assets
               /\ \A i \in 1..n, j \in 1..n :
                    (i < j /\ res.val[j].seeds # <<>>) => Used(res.val[i]) >= res.val[i].assets
       /\ (n = 2 /\ amounts = ExampleDemands /\ in[1].assets = 70 /\ in[2].assets = 40
           /\ in[1].fee = 0 /\ in[2].fee = 0) =>
            /\ res.ok
            /\ res.val[1].seeds = <<[lockId |-> "recipient:A", amount |-> 60],
                                    [lockId |-> "recipient:B", amount |-> 10]>>
            /\ res.val[2].seeds = <<[lockId |-> "recipient:B", amount |-> 40]>>

\* the example: the second demand is split over both notes
C26_Witness ==
  /\ AmountsCall /\ built[1].res.ok
  /\ built[1].args.amounts = ExampleDemands
  /\ Len(built[1].res.val[1].seeds) = 2 /\ Len(built[1].res.val[2].seeds) = 1

ArtifactsCall == built # <<>> /\ built[1].op = "artifacts"
AllocationErrors ==
  { "Unable to allocate enough fee across the selected notes.",
    "Unable to allocate outputs across the selected notes. Try selecting more notes." }

\* C29: once buildWasmArtifacts has found outputs plus fee within the
\* inputs, neither distribution fails, every spend gives away at most its
\* note, and buildWasmTransaction makes a builder.
C29_PreCheckSuffices ==
  ArtifactsCall =>
    LET res == built[1].res
    IN /\ ~res.ok => res.err \notin AllocationErrors
       /\ res.ok => /\ \A i \in 1..Len(res.val.spends) :
                         Used(res.val.spends[i]) <= res.val.spends[i].assets
                    /\ res.val.builder

\* inputs of 2 and 2 used up exactly: a fee of 2 on the first note, an
\* output and the change on the second
C29_Witness ==
  /\ ArtifactsCall /\ built[1].res.ok /\ built[1].res.val.builder
  /\ Len(built[1].res.val.spends) = 2
  /\ built[1].res.val.spends[1].fee = 2
  /\ Len(built[1].res.val.spends[2].seeds) = 2
  /\ Used(built[1].res.val.spends[2]) = 2

\* C27: for every transaction, with or without a network, the bytes
\* buildSigningBytes gives the wallet to sign are the bytes
\* encodeUnsignedPayload produces for it.
C27_SigningBytesAreEncoded ==
  \A tx \in HeldTxs : buildSigningBytes(tx) = encodeUnsignedPayload(tx)

\* C28: in every transaction reached from the build by honest signSpend
\* calls, export/import and merges, each (pubkey, signature) entry of a %pkh
\* spend passes verifySignatureOnTx on that transaction.
C28_SignaturesStayVerifiable ==
  \A tx \in HeldTxs : \A i \in PkhSpends(tx) :
     \A pubkey \in DOMAIN tx.spends[i].seeds.signatures :
        verifySignatureOnTx(tx, pubkey, tx.spends[i].seeds.signatures[pubkey])

\* the keys with a signature in seeds a are keys with a signature in seeds b,
\* and b counts at least as many collected pkhs
RECURSIVE KeysGrow(_, _)
KeysGrow(a, b) ==
  /\ a.kind = b.kind
  /\ CASE a.kind = "%pkh" ->
            /\ DOMAIN a.signatures \subseteq DOMAIN b.signatures
            /\ countCollectedPkh(a) <= countCollectedPkh(b)
       [] a.kind = "%tim" -> KeysGrow(a.inner, b.inner)
       [] OTHER -> TRUE
Grows(tx, out) ==
  /\ Len(out.spends) = Len(tx.spends)
  /\ \A i \in 1..Len(tx.spends) :
       /\ out.spends[i].noteId = tx.spends[i].noteId
       /\ KeysGrow(tx.spends[i].seeds, out.spends[i].seeds)
  /\ \A now \in Times :
       isTransactionFullySigned(tx, now) => isTransactionFullySigned(out, now)

\* C30: the transaction signSpend returns, and the one a merge of tx with
\* another returns, has for every spend all the signing keys tx had, counts
\* no fewer collected pkhs, and is fully signed at every time tx was.
C30_SignaturesOnlyGrow ==
  [][ /\ \A a \in Slots, b \in Slots :
           (pending' = pending /\ last' = "" /\ Merge(a, b)) => Grows(held[a], held'[a])
      /\ \A call \in pending \ pending' :
           (last' = "" /\ SignSpendReturn(call, mockSign(call.pubkey, call.bytes)))
              => Grows(call.tx, held'[call.src]) ]_vars

\* two copies of the 2-of-3 transaction, both fully signed, the first with
\* all three signatures and the second with two of them
C30_Witness ==
  /\ DOMAIN held = {1, 2}
  /\ isTransactionFullySigned(held[1], 0) /\ isTransactionFullySigned(held[2], 0)
  /\ Cardinality(DOMAIN held[1].spends[1].seeds.signatures) = 3
  /\ Cardinality(DOMAIN held[2].spends[1].seeds.signatures) = 2

====
